---- MODULE Spec2Model ----
(***************************************************************************)
(* Model of the expense tracker services: CategoriesService,               *)
(* ExpensesService and BudgetsService over the relational store.           *)
(*                                                                         *)
(* Instants (JavaScript Date values) are integers counted in ticks from    *)
(* 2024-01-01T00:00, TicksPerDay ticks to the day. Date getters/setters    *)
(* are evaluated with the server in UTC.                                   *)
(***************************************************************************)
EXTENDS Integers, Sequences, FiniteSets, TLC

----------------------------------------------------------------------------
(* Bounds *)

MaxDate == 4

TicksPerDay == 2

Users == {"u1", "u2"}

Procs == {"p1", "p2"}

Names == {"Food", "Rent"}

Colors == {"#FF6B6B"}

Amounts == {5}

Dates == 1..MaxDate

BudgetIds == 1..2

\* ids of the seeded and of the user-created categories
SeedCategoryIds == {1}

CategoryIds == 1..3

ExpenseIds == 1..2

----------------------------------------------------------------------------
(* Absent values: an optional DTO field left out, a null column *)

Absent == 0 - 1

NoUser == "none"

None == ""

NoId == 0

PeriodTypes == {"WEEKLY", "MONTHLY"}

----------------------------------------------------------------------------
(* State *)

VARIABLES categories, expenses, budgets,
          nextCategoryId, nextExpenseId, nextBudgetId,
          now, calls, last

vars == <<categories, expenses, budgets,
          nextCategoryId, nextExpenseId, nextBudgetId,
          now, calls, last>>

store == <<categories, expenses, budgets,
           nextCategoryId, nextExpenseId, nextBudgetId>>

----------------------------------------------------------------------------
(* Calendar arithmetic of Date.setDate / Date.setMonth *)

EpochYear == 2024

IsLeap(y) == (y % 4 = 0 /\ y % 100 # 0) \/ y % 400 = 0

DaysInMonth(y, m) ==
  IF m = 2 THEN (IF IsLeap(y) THEN 29 ELSE 28)
  ELSE IF m \in {4, 6, 9, 11} THEN 30 ELSE 31

RECURSIVE DaysBeforeMonth(_, _)
DaysBeforeMonth(y, m) ==
  IF y = EpochYear /\ m = 1 THEN 0
  ELSE LET py == IF m = 1 THEN y - 1 ELSE y
           pm == IF m = 1 THEN 12 ELSE m - 1
       IN DaysBeforeMonth(py, pm) + DaysInMonth(py, pm)

RECURSIVE YMDFrom(_, _, _)
YMDFrom(day, y, m) ==
  IF day < DaysInMonth(y, m) THEN [y |-> y, m |-> m, d |-> day + 1]
  ELSE YMDFrom(day - DaysInMonth(y, m),
               IF m = 12 THEN y + 1 ELSE y,
               IF m = 12 THEN 1 ELSE m + 1)

YMD(day) == YMDFrom(day, EpochYear, 1)

DayOf(t) == t \div TicksPerDay

TimeOfDay(t) == t % TicksPerDay

AddDays(t, n) == t + n * TicksPerDay

\* end.setMonth(end.getMonth() + 1): same day-of-month in the next month,
\* a day past the month's end rolling over into the month after
AddMonth(t) ==
  LET c == YMD(DayOf(t))
      ny == IF c.m = 12 THEN c.y + 1 ELSE c.y
      nm == IF c.m = 12 THEN 1 ELSE c.m + 1
  IN (DaysBeforeMonth(ny, nm) + c.d - 1) * TicksPerDay + TimeOfDay(t)

\* a default end that keeps the whole added period, without the day taken off
DefaultEndWholePeriod(start, periodType) ==
  IF periodType = "WEEKLY" THEN AddDays(start, 7) ELSE AddMonth(start)

\* the end date create computes when the request carries none
DefaultEnd(start, periodType) ==
  AddDays(IF periodType = "WEEKLY" THEN AddDays(start, 7) ELSE AddMonth(start),
          0 - 1)

----------------------------------------------------------------------------
(* Results of a call *)

Result(op, u, id, result, msg) ==
  [op |-> op, user |-> u, id |-> id, result |-> result, msg |-> msg]

----------------------------------------------------------------------------
(* BudgetsService *)

CreateBudgetDtos ==
  [amount : Amounts, periodType : PeriodTypes,
   startDate : Dates, endDate : Dates \cup {Absent}]

UpdateBudgetDtos ==
  [amount : Amounts \cup {Absent}, periodType : PeriodTypes \cup {"absent"},
   startDate : Dates \cup {Absent}, endDate : Dates \cup {Absent},
   isActive : {"absent", "true", "false"}]

\* a range check that lets a budget end the instant it starts
InvalidRangeStrict(start, end) == end < start

\* the date range check of create and update
InvalidRange(start, end) == end <= start

\* an overlap query that misses an existing budget lying inside the new one
OverlapWhereEndpointsOnly(b, userId, start, end) ==
  /\ b.userId = userId
  /\ b.isActive
  /\ \/ (b.startDate <= start /\ b.endDate >= start)
     \/ (b.startDate <= end /\ b.endDate >= end)

\* the where clause of the findFirst of create
OverlapWhere(b, userId, start, end) ==
  /\ b.userId = userId
  /\ b.isActive
  /\ \/ (b.startDate <= start /\ b.endDate >= start)
     \/ (b.startDate <= end /\ b.endDate >= end)
     \/ (b.startDate >= start /\ b.endDate <= end)

OverlappingBudgets(bs, userId, start, end) ==
  {b \in bs : OverlapWhere(b, userId, start, end)}

BudgetCreateEnd(dto) ==
  IF dto.endDate # Absent THEN dto.endDate
  ELSE DefaultEnd(dto.startDate, dto.periodType)

NewBudget(id, userId, dto) ==
  [id |-> id, userId |-> userId, amount |-> dto.amount,
   periodType |-> dto.periodType, startDate |-> dto.startDate,
   endDate |-> BudgetCreateEnd(dto), isActive |-> TRUE]

BudgetCreate(u, dto) ==
  /\ nextBudgetId \in BudgetIds
  /\ LET start == dto.startDate
         end == BudgetCreateEnd(dto)
     IN IF InvalidRange(start, end)
        THEN /\ last' = Result("budgetCreate", u, NoId, "BadRequest",
                               "INVALID_DATE_RANGE")
             /\ UNCHANGED <<budgets, nextBudgetId>>
        ELSE IF OverlappingBudgets(budgets, u, start, end) # {}
        THEN /\ last' = Result("budgetCreate", u, NoId, "BadRequest",
                               "OVERLAPPING_BUDGET")
             /\ UNCHANGED <<budgets, nextBudgetId>>
        ELSE /\ budgets' = budgets \cup {NewBudget(nextBudgetId, u, dto)}
             /\ nextBudgetId' = nextBudgetId + 1
             /\ last' = Result("budgetCreate", u, nextBudgetId, "ok", "")
  /\ UNCHANGED <<categories, expenses, nextCategoryId, nextExpenseId,
                 now, calls>>

\* prisma.budget.update: the fields present in data replace the stored ones
ApplyBudgetUpdate(b, dto) ==
  [b EXCEPT
     !.amount = IF dto.amount # Absent THEN dto.amount ELSE @,
     !.periodType = IF dto.periodType # "absent" THEN dto.periodType ELSE @,
     !.startDate = IF dto.startDate # Absent THEN dto.startDate ELSE @,
     !.endDate = IF dto.endDate # Absent THEN dto.endDate ELSE @,
     !.isActive = IF dto.isActive # "absent" THEN dto.isActive = "true" ELSE @]

MergedStart(b, dto) ==
  IF dto.startDate # Absent THEN dto.startDate ELSE b.startDate

MergedEnd(b, dto) ==
  IF dto.endDate # Absent THEN dto.endDate ELSE b.endDate

BudgetById(id) == {b \in budgets : b.id = id}

\* an update that repeats the overlap query of create before it writes
BudgetUpdateWriteChecked(b, u, dto) ==
  IF OverlappingBudgets(budgets \ {b}, u, MergedStart(b, dto),
                        MergedEnd(b, dto)) # {}
  THEN /\ last' = Result("budgetUpdate", u, b.id, "BadRequest",
                         "OVERLAPPING_BUDGET")
       /\ UNCHANGED budgets
  ELSE /\ budgets' = (budgets \ {b}) \cup {ApplyBudgetUpdate(b, dto)}
       /\ last' = Result("budgetUpdate", u, b.id, "ok", "")

BudgetUpdateWrite(b, u, dto) ==
  /\ budgets' = (budgets \ {b}) \cup {ApplyBudgetUpdate(b, dto)}
  /\ last' = Result("budgetUpdate", u, b.id, "ok", "")

\* an update that validates the date range before it looks at the owner
BudgetUpdateValidatingFirst(u, id, dto) ==
  /\ IF BudgetById(id) = {}
     THEN /\ last' = Result("budgetUpdate", u, id, "NotFound", "NOT_FOUND")
          /\ UNCHANGED budgets
     ELSE LET b == CHOOSE x \in BudgetById(id) : TRUE
          IN IF InvalidRange(MergedStart(b, dto), MergedEnd(b, dto))
             THEN /\ last' = Result("budgetUpdate", u, id, "BadRequest",
                                    "INVALID_DATE_RANGE")
                  /\ UNCHANGED budgets
             ELSE IF b.userId # u
             THEN /\ last' = Result("budgetUpdate", u, id, "Forbidden", "")
                  /\ UNCHANGED budgets
             ELSE BudgetUpdateWrite(b, u, dto)
  /\ UNCHANGED <<categories, expenses, nextCategoryId, nextExpenseId,
                 nextBudgetId, now, calls>>

BudgetUpdate(u, id, dto) ==
  /\ IF BudgetById(id) = {}
     THEN /\ last' = Result("budgetUpdate", u, id, "NotFound", "NOT_FOUND")
          /\ UNCHANGED budgets
     ELSE LET b == CHOOSE x \in BudgetById(id) : TRUE
          IN IF b.userId # u
             THEN /\ last' = Result("budgetUpdate", u, id, "Forbidden", "")
                  /\ UNCHANGED budgets
             ELSE IF InvalidRange(MergedStart(b, dto), MergedEnd(b, dto))
             THEN /\ last' = Result("budgetUpdate", u, id, "BadRequest",
                                    "INVALID_DATE_RANGE")
                  /\ UNCHANGED budgets
             ELSE BudgetUpdateWrite(b, u, dto)
  /\ UNCHANGED <<categories, expenses, nextCategoryId, nextExpenseId,
                 nextBudgetId, now, calls>>

BudgetRemove(u, id) ==
  /\ IF BudgetById(id) = {}
     THEN /\ last' = Result("budgetRemove", u, id, "NotFound", "NOT_FOUND")
          /\ UNCHANGED budgets
     ELSE LET b == CHOOSE x \in BudgetById(id) : TRUE
          IN IF b.userId # u
             THEN /\ last' = Result("budgetRemove", u, id, "Forbidden", "")
                  /\ UNCHANGED budgets
             ELSE /\ budgets' = budgets \ {b}
                  /\ last' = Result("budgetRemove", u, id, "ok", "")
  /\ UNCHANGED <<categories, expenses, nextCategoryId, nextExpenseId,
                 nextBudgetId, now, calls>>

----------------------------------------------------------------------------
(* CategoriesService. A category row is id, name, color, userId, isDefault; *)
(* icon is a second free-text column handled exactly as color.              *)

CreateCategoryDtos == [name : Names, color : Colors \cup {None}]

UpdateCategoryDtos == [name : Names \cup {None}, color : Colors \cup {None}]

CategoryById(id) == {c \in categories : c.id = id}

\* a name lookup over the categories of every user
NameTakenByAnyone(cs, userId, name) == \E c \in cs : c.name = name

\* findFirst({name, OR: [{userId}, {userId: null}]})
NameTaken(cs, userId, name) ==
  \E c \in cs : c.name = name /\ (c.userId = userId \/ c.userId = NoUser)

CategoryCreate(u, dto) ==
  /\ nextCategoryId \in CategoryIds
  /\ IF NameTaken(categories, u, dto.name)
     THEN /\ last' = Result("categoryCreate", u, NoId, "Conflict",
                            "DUPLICATE_NAME")
          /\ UNCHANGED <<categories, nextCategoryId>>
     ELSE /\ categories' = categories \cup
               {[id |-> nextCategoryId, name |-> dto.name, color |-> dto.color,
                 userId |-> u, isDefault |-> FALSE]}
          /\ nextCategoryId' = nextCategoryId + 1
          /\ last' = Result("categoryCreate", u, nextCategoryId, "ok", "")
  /\ UNCHANGED <<expenses, budgets, nextExpenseId, nextBudgetId, now, calls>>

\* prisma.category.update: the fields present in data replace the stored ones
ApplyCategoryUpdate(c, dto) ==
  [c EXCEPT
     !.name = IF dto.name # None THEN dto.name ELSE @,
     !.color = IF dto.color # None THEN dto.color ELSE @]

\* an update guard that treats an ownerless row as anybody's
CategoryUpdateDeniedOwnedOnly(c, userId) ==
  c.userId # NoUser /\ c.userId # userId

CategoryUpdateDenied(c, userId) == c.isDefault \/ c.userId # userId

\* a rename lookup that does not leave the target out
RenameCollidesWithItself(cs, userId, id, name) ==
  \E x \in cs : x.name = name /\ x.userId = userId

\* findFirst({name, userId, NOT: {id}})
RenameCollides(cs, userId, id, name) ==
  \E x \in cs : x.name = name /\ x.userId = userId /\ x.id # id

CategoryUpdate(u, id, dto) ==
  /\ IF CategoryById(id) = {}
     THEN /\ last' = Result("categoryUpdate", u, id, "NotFound", "NOT_FOUND")
          /\ UNCHANGED categories
     ELSE LET c == CHOOSE x \in CategoryById(id) : TRUE
          IN IF CategoryUpdateDenied(c, u)
             THEN /\ last' = Result("categoryUpdate", u, id, "Forbidden", "")
                  /\ UNCHANGED categories
             ELSE IF /\ dto.name # None
                     /\ RenameCollides(categories, u, id, dto.name)
             THEN /\ last' = Result("categoryUpdate", u, id, "Conflict",
                                    "DUPLICATE_NAME")
                  /\ UNCHANGED categories
             ELSE /\ categories' =
                       (categories \ {c}) \cup {ApplyCategoryUpdate(c, dto)}
                  /\ last' = Result("categoryUpdate", u, id, "ok", "")
  /\ UNCHANGED <<expenses, budgets, nextCategoryId, nextExpenseId,
                 nextBudgetId, now, calls>>

\* a count that lets one referencing expense pass
ExpenseCountButOne(es, id) ==
  LET n == Cardinality({e \in es : e.categoryId = id})
  IN IF n > 0 THEN n - 1 ELSE 0

\* _count.expenses of the category
ExpenseCount(es, id) == Cardinality({e \in es : e.categoryId = id})

\* a removal that deletes the row before it looks at the expense count
CategoryRemoveDeletingFirst(u, id) ==
  /\ IF CategoryById(id) = {}
     THEN /\ last' = Result("categoryRemove", u, id, "NotFound", "NOT_FOUND")
          /\ UNCHANGED categories
     ELSE LET c == CHOOSE x \in CategoryById(id) : TRUE
          IN IF c.isDefault
             THEN /\ last' = Result("categoryRemove", u, id, "Forbidden",
                                    "DEFAULT_CATEGORY_DELETE")
                  /\ UNCHANGED categories
             ELSE IF c.userId # u
             THEN /\ last' = Result("categoryRemove", u, id, "Forbidden", "")
                  /\ UNCHANGED categories
             ELSE /\ categories' = categories \ {c}
                  /\ last' = IF ExpenseCount(expenses, id) > 0
                             THEN Result("categoryRemove", u, id, "Conflict",
                                         "DELETE_FAILED")
                             ELSE Result("categoryRemove", u, id, "ok", "")
  /\ UNCHANGED <<expenses, budgets, nextCategoryId, nextExpenseId,
                 nextBudgetId, now, calls>>

CategoryRemove(u, id) ==
  /\ IF CategoryById(id) = {}
     THEN /\ last' = Result("categoryRemove", u, id, "NotFound", "NOT_FOUND")
          /\ UNCHANGED categories
     ELSE LET c == CHOOSE x \in CategoryById(id) : TRUE
          IN IF c.isDefault
             THEN /\ last' = Result("categoryRemove", u, id, "Forbidden",
                                    "DEFAULT_CATEGORY_DELETE")
                  /\ UNCHANGED categories
             ELSE IF c.userId # u
             THEN /\ last' = Result("categoryRemove", u, id, "Forbidden", "")
                  /\ UNCHANGED categories
             ELSE IF ExpenseCount(expenses, id) > 0
             THEN /\ last' = Result("categoryRemove", u, id, "Conflict",
                                    "DELETE_FAILED")
                  /\ UNCHANGED categories
             ELSE /\ categories' = categories \ {c}
                  /\ last' = Result("categoryRemove", u, id, "ok", "")
  /\ UNCHANGED <<expenses, budgets, nextCategoryId, nextExpenseId,
                 nextBudgetId, now, calls>>

----------------------------------------------------------------------------
(* ExpensesService. An expense row is id, userId, categoryId, name, amount, *)
(* date and createdAt; createdAt is filled by the database with the        *)
(* instant of insertion. Notes are free text no decision depends on.       *)

CreateExpenseDtos ==
  [categoryId : CategoryIds, name : Names, amount : Amounts,
   date : Dates \cup {Absent}]

UpdateExpenseDtos ==
  [categoryId : CategoryIds \cup {NoId}, name : Names \cup {None},
   amount : Amounts \cup {Absent}, date : Dates \cup {Absent}]

ExpenseById(id) == {e \in expenses : e.id = id}

\* a lookup by id alone
CategoryExists(cs, id, userId) == \E c \in cs : c.id = id

\* findFirst({id, OR: [{userId}, {userId: null, isDefault: true}]})
CategoryVisible(cs, id, userId) ==
  \E c \in cs :
    /\ c.id = id
    /\ (c.userId = userId \/ (c.userId = NoUser /\ c.isDefault))

\* a create that stamps every expense with the clock
ExpenseDateAlwaysNow(dto, t) == t

\* date ? new Date(date) : new Date()
ExpenseDate(dto, t) == IF dto.date # Absent THEN dto.date ELSE t

ExpenseCreate(u, dto) ==
  /\ nextExpenseId \in ExpenseIds
  /\ IF ~CategoryVisible(categories, dto.categoryId, u)
     THEN /\ last' = Result("expenseCreate", u, NoId, "NotFound",
                            "CATEGORY_NOT_FOUND")
          /\ UNCHANGED <<expenses, nextExpenseId>>
     ELSE /\ expenses' = expenses \cup
               {[id |-> nextExpenseId, userId |-> u,
                 categoryId |-> dto.categoryId, name |-> dto.name,
                 amount |-> dto.amount,
                 date |-> ExpenseDate(dto, now),
                 createdAt |-> now]}
          /\ nextExpenseId' = nextExpenseId + 1
          /\ last' = Result("expenseCreate", u, nextExpenseId, "ok", "")
  /\ UNCHANGED <<categories, budgets, nextCategoryId, nextBudgetId,
                 now, calls>>

\* prisma.expense.update: the fields present in data replace the stored ones
ApplyExpenseUpdate(e, dto) ==
  [e EXCEPT
     !.categoryId = IF dto.categoryId # NoId THEN dto.categoryId ELSE @,
     !.name = IF dto.name # None THEN dto.name ELSE @,
     !.amount = IF dto.amount # Absent THEN dto.amount ELSE @,
     !.date = IF dto.date # Absent THEN dto.date ELSE @]

ExpenseUpdate(u, id, dto) ==
  /\ IF ExpenseById(id) = {}
     THEN /\ last' = Result("expenseUpdate", u, id, "NotFound", "NOT_FOUND")
          /\ UNCHANGED expenses
     ELSE LET e == CHOOSE x \in ExpenseById(id) : TRUE
          IN IF e.userId # u
             THEN /\ last' = Result("expenseUpdate", u, id, "Forbidden", "")
                  /\ UNCHANGED expenses
             ELSE IF /\ dto.categoryId # NoId
                     /\ ~CategoryVisible(categories, dto.categoryId, u)
             THEN /\ last' = Result("expenseUpdate", u, id, "NotFound",
                                    "CATEGORY_NOT_FOUND")
                  /\ UNCHANGED expenses
             ELSE /\ expenses' =
                       (expenses \ {e}) \cup {ApplyExpenseUpdate(e, dto)}
                  /\ last' = Result("expenseUpdate", u, id, "ok", "")
  /\ UNCHANGED <<categories, budgets, nextCategoryId, nextExpenseId,
                 nextBudgetId, now, calls>>

\* a removal that checks no ownership
ExpenseRemoveUnchecked(e, userId) == FALSE

\* expense.userId !== userId
ExpenseRemoveDenied(e, userId) == e.userId # userId

ExpenseRemove(u, id) ==
  /\ IF ExpenseById(id) = {}
     THEN /\ last' = Result("expenseRemove", u, id, "NotFound", "NOT_FOUND")
          /\ UNCHANGED expenses
     ELSE LET e == CHOOSE x \in ExpenseById(id) : TRUE
          IN IF ExpenseRemoveDenied(e, u)
             THEN /\ last' = Result("expenseRemove", u, id, "Forbidden", "")
                  /\ UNCHANGED expenses
             ELSE /\ expenses' = expenses \ {e}
                  /\ last' = Result("expenseRemove", u, id, "ok", "")
  /\ UNCHANGED <<categories, budgets, nextCategoryId, nextExpenseId,
                 nextBudgetId, now, calls>>

----------------------------------------------------------------------------
(* Queries. A read handler changes nothing, so it is an operator over the  *)
(* tables it reads (cs, es, bs), the caller and the instant t of the call. *)
(* Where the database is free to choose (findFirst with several matches,   *)
(* rows that tie under orderBy, rows read with no orderBy), the operator   *)
(* gives the set of all results the call can return.                       *)

Min(a, b) == IF a < b THEN a ELSE b

Max(a, b) == IF a > b THEN a ELSE b

\* a quotient rounded down
CeilRoundedDown(a, b) == a \div b

\* Math.ceil(a / b) for b > 0
Ceil(a, b) == 0 - ((0 - a) \div b)

\* Math.round(100 * a / b), the value kept in hundredths; halves round up
RoundHundredths(a, b) == (200 * a + b) \div (2 * b)

\* position of a name in the collation order
NameRank(name) == IF name = "Food" THEN 1 ELSE IF name = "Rent" THEN 2 ELSE 0

\* findMany({orderBy}): the rows in the order of the key, ties in any order
\* (key is a function giving each row its sort key)
RECURSIVE OrderedBy(_, _, _)
OrderedBy(S, key, order) ==
  IF S = {} THEN {<<>>}
  ELSE LET firsts == {x \in S : \A y \in S :
                        IF order = "asc" THEN key[x] <= key[y]
                                         ELSE key[x] >= key[y]}
       IN UNION {{<<x>> \o f : f \in OrderedBy(S \ {x}, key, order)} :
                   x \in firsts}

\* skip and take of findMany
Page(f, skip, take) ==
  [i \in 1..Max(0, Min(Len(f) - skip, take)) |-> f[skip + i]]

RECURSIVE calculateTotal(_)
calculateTotal(es) ==
  IF es = {} THEN 0
  ELSE LET e == CHOOSE x \in es : TRUE
       IN e.amount + calculateTotal(es \ {e})

NotFound(msg) == [result |-> "NotFound", msg |-> msg]

Found(value) == [result |-> "ok", value |-> value]

NoCategory == [id |-> NoId]

\* the category row an expense is joined with
CategoryOf(cs, e) ==
  IF \E c \in cs : c.id = e.categoryId
  THEN CHOOSE c \in cs : c.id = e.categoryId
  ELSE NoCategory

\* include: {category: {select: {id, name, icon, color}}}
WithCategory(cs, e) ==
  LET c == CategoryOf(cs, e)
  IN [expense |-> e,
      category |-> IF c = NoCategory THEN NoCategory
                   ELSE [id |-> c.id, name |-> c.name, color |-> c.color]]

\* include: {category: true}
WithWholeCategory(cs, e) == [expense |-> e, category |-> CategoryOf(cs, e)]

(* CategoriesService queries *)

\* orderBy: [{isDefault: 'desc'}, {name: 'asc'}]
CategoryOrderKey(c) == (IF c.isDefault THEN 0 ELSE 1 + Cardinality(Names))
                       + NameRank(c.name)

CategoryFindAll(cs, userId) ==
  OrderedBy({c \in cs : c.userId = userId \/ (c.userId = NoUser /\ c.isDefault)},
            [c \in cs |-> CategoryOrderKey(c)], "asc")

CategoryFindOne(cs, id, userId) ==
  IF CategoryVisible(cs, id, userId)
  THEN {Found(c) : c \in {x \in cs :
                            /\ x.id = id
                            /\ (x.userId = userId
                                \/ (x.userId = NoUser /\ x.isDefault))}}
  ELSE {NotFound("NOT_FOUND")}

(* ExpensesService queries *)

QueryExpenseDtos ==
  [page : 1..2, limit : 1..3, sortBy : {"date", "amount", "name", "createdAt"},
   order : {"asc", "desc"}, categoryId : CategoryIds \cup {NoId},
   startDate : Dates \cup {Absent}, endDate : Dates \cup {Absent},
   minAmount : {Absent, 0, 5, 10}, maxAmount : {Absent, 0, 5, 10}]

\* APP_CONSTANTS.PAGINATION.MAX_LIMIT, scaled down to the model's table sizes
MAX_LIMIT == 2

ExpenseWhere(e, userId, q) ==
  /\ e.userId = userId
  /\ q.categoryId # NoId => e.categoryId = q.categoryId
  /\ q.startDate # Absent => e.date >= q.startDate
  /\ q.endDate # Absent => e.date <= q.endDate
  /\ q.minAmount # Absent => e.amount >= q.minAmount
  /\ q.maxAmount # Absent => e.amount <= q.maxAmount

ExpenseSortKey(e, sortBy) ==
  CASE sortBy = "date" -> e.date
    [] sortBy = "amount" -> e.amount
    [] sortBy = "name" -> NameRank(e.name)
    [] sortBy = "createdAt" -> e.createdAt

ExpenseFindAll(cs, es, userId, q) ==
  LET skip == (q.page - 1) * q.limit
      take == Min(q.limit, MAX_LIMIT)
      matching == {e \in es : ExpenseWhere(e, userId, q)}
      total == Cardinality(matching)
      key == [e \in es |-> ExpenseSortKey(e, q.sortBy)]
  IN {[expenses |-> [i \in DOMAIN Page(f, skip, take) |->
                       WithCategory(cs, Page(f, skip, take)[i])],
       total |-> total, page |-> q.page, limit |-> take,
       totalPages |-> Ceil(total, take)] :
        f \in OrderedBy(matching, key, q.order)}

\* a lookup that leaves the owner out of the where clause
ExpenseFindOneOfAnyUser(cs, es, id, userId) ==
  IF \E e \in es : e.id = id
  THEN {Found(WithCategory(cs, e)) : e \in {x \in es : x.id = id}}
  ELSE {NotFound("NOT_FOUND")}

ExpenseFindOne(cs, es, id, userId) ==
  IF \E e \in es : e.id = id /\ e.userId = userId
  THEN {Found(WithCategory(cs, e)) :
          e \in {x \in es : x.id = id /\ x.userId = userId}}
  ELSE {NotFound("NOT_FOUND")}

ExpenseFindRecent(cs, es, userId, limit) ==
  {[i \in DOMAIN Page(f, 0, Min(limit, 20)) |-> WithCategory(cs, f[i])] :
     f \in OrderedBy({e \in es : e.userId = userId},
                     [e \in es |-> e.date], "desc")}

(* BudgetsService queries *)

BudgetFindAll(bs, userId, isActive) ==
  OrderedBy({b \in bs : /\ b.userId = userId
                        /\ isActive # "absent" => b.isActive = (isActive = "true")},
            [b \in bs |-> b.startDate], "desc")

\* figures that count the expenses of every user against the budget
BudgetFiguresOfAllUsers(es, b, userId, t) ==
  LET spentAmount ==
        calculateTotal({e \in es : /\ e.date >= b.startDate
                                   /\ e.date <= b.endDate})
  IN [budget |-> b,
      spentAmount |-> spentAmount,
      remainingAmount |-> b.amount - spentAmount,
      percentage |-> IF b.amount > 0
                     THEN RoundHundredths(100 * spentAmount, b.amount) ELSE 0,
      daysRemaining |-> Max(0, Ceil(b.endDate - t, TicksPerDay)),
      isOverBudget |-> spentAmount > b.amount]

\* the figures findCurrent and getStatus add to the budget row
BudgetFigures(es, b, userId, t) ==
  LET spentAmount ==
        calculateTotal({e \in es : /\ e.userId = userId
                                   /\ e.date >= b.startDate
                                   /\ e.date <= b.endDate})
  IN [budget |-> b,
      spentAmount |-> spentAmount,
      remainingAmount |-> b.amount - spentAmount,
      percentage |-> IF b.amount > 0
                     THEN RoundHundredths(100 * spentAmount, b.amount) ELSE 0,
      daysRemaining |-> Max(0, Ceil(b.endDate - t, TicksPerDay)),
      isOverBudget |-> spentAmount > b.amount]

Null == [result |-> "null"]

\* a lookup that takes a budget to be over at the instant it ends
CurrentBudgetsBeforeEnd(bs, userId, t) ==
  {b \in bs : /\ b.userId = userId
              /\ b.isActive
              /\ b.startDate <= t
              /\ b.endDate > t}

\* findFirst({userId, isActive: true, startDate <= now, endDate >= now})
CurrentBudgets(bs, userId, t) ==
  {b \in bs : /\ b.userId = userId
              /\ b.isActive
              /\ b.startDate <= t
              /\ b.endDate >= t}

\* a findCurrent that raises NotFoundException when it finds no budget
BudgetFindCurrentOrThrow(es, bs, userId, t) ==
  IF CurrentBudgets(bs, userId, t) = {} THEN {NotFound("NOT_FOUND")}
  ELSE {BudgetFigures(es, b, userId, t) : b \in CurrentBudgets(bs, userId, t)}

BudgetFindCurrent(es, bs, userId, t) ==
  IF CurrentBudgets(bs, userId, t) = {} THEN {Null}
  ELSE {BudgetFigures(es, b, userId, t) : b \in CurrentBudgets(bs, userId, t)}

BudgetFindOne(bs, id, userId) ==
  IF \E b \in bs : b.id = id /\ b.userId = userId
  THEN {Found(b) : b \in {x \in bs : x.id = id /\ x.userId = userId}}
  ELSE {NotFound("NOT_FOUND")}

BudgetGetStatus(es, bs, id, userId, t) ==
  {IF r.result = "ok" THEN Found(BudgetFigures(es, r.value, userId, t)) ELSE r :
     r \in BudgetFindOne(bs, id, userId)}

(* StatisticsService *)

RECURSIVE DaysUntilEpoch(_, _)
DaysUntilEpoch(y, m) ==
  IF y = EpochYear /\ m = 1 THEN 0
  ELSE DaysInMonth(y, m) + DaysUntilEpoch(IF m = 12 THEN y + 1 ELSE y,
                                          IF m = 12 THEN 1 ELSE m + 1)

\* new Date(year, monthIndex, 1) for any month index, as an instant;
\* m counts from 1 and may lie outside 1..12
FirstOfMonth(y, m) ==
  LET ny == y + ((m - 1) \div 12)
      nm == ((m - 1) % 12) + 1
  IN TicksPerDay * (IF ny >= EpochYear THEN DaysBeforeMonth(ny, nm)
                    ELSE 0 - DaysUntilEpoch(ny, nm))

\* a sort that puts the smallest total first
ByTotalAscending(entries) ==
  OrderedBy(entries, [x \in entries |-> x.total], "asc")

\* sort((a, b) => b.total - a.total), rows that tie in either order
ByTotal(entries) == OrderedBy(entries, [x \in entries |-> x.total], "desc")

\* the categoryMap of getDashboard, one entry for each category spent in
CategorySummaries(cs, es) ==
  {LET of == {e \in es : e.categoryId = id}
       c == CategoryOf(cs, CHOOSE e \in of : TRUE)
   IN [categoryId |-> c.id, categoryName |-> c.name, categoryColor |-> c.color,
       total |-> calculateTotal(of), count |-> Cardinality(of)] :
     id \in {e.categoryId : e \in es}}

WithPercentage(entries, whole) ==
  [i \in DOMAIN entries |->
     [entry |-> entries[i],
      percentage |-> IF whole > 0
                     THEN RoundHundredths(100 * entries[i].total, whole) ELSE 0]]

\* a budgetStatus that counts only the whole days left
DashboardBudgetStatusWholeDays(es, bs, userId, t) ==
  IF CurrentBudgets(bs, userId, t) = {} THEN {Null}
  ELSE {LET f == BudgetFigures(es, b, userId, t)
        IN [budgetId |-> b.id, amount |-> b.amount, spent |-> f.spentAmount,
            remaining |-> f.remainingAmount, percentage |-> f.percentage,
            daysRemaining |-> Max(0, (b.endDate - t) \div TicksPerDay)] :
          b \in CurrentBudgets(bs, userId, t)}

DashboardBudgetStatus(es, bs, userId, t) ==
  IF CurrentBudgets(bs, userId, t) = {} THEN {Null}
  ELSE {LET f == BudgetFigures(es, b, userId, t)
        IN [budgetId |-> b.id, amount |-> b.amount, spent |-> f.spentAmount,
            remaining |-> f.remainingAmount, percentage |-> f.percentage,
            daysRemaining |-> f.daysRemaining] :
          b \in CurrentBudgets(bs, userId, t)}

\* a week that starts at the midnight seven days back
WeekStartAtMidnight(t) == TicksPerDay * DayOf(AddDays(t, 0 - 7))

\* new Date(now.getTime() - 7 * 24 * 60 * 60 * 1000)
WeekStart(t) == AddDays(t, 0 - 7)

getDashboard(cs, es, bs, userId, t) ==
  LET today == YMD(DayOf(t))
      todayStart == TicksPerDay * DayOf(t)
      weekStart == WeekStart(t)
      monthStart == FirstOfMonth(today.y, today.m)
      own == {e \in es : e.userId = userId}
      monthExpenses == {e \in own : e.date >= monthStart}
      monthTotal == calculateTotal(monthExpenses)
  IN {[todayTotal |-> calculateTotal({e \in own : e.date >= todayStart}),
       weekTotal |-> calculateTotal({e \in own : e.date >= weekStart}),
       monthTotal |-> monthTotal,
       topCategories |-> WithPercentage(Page(top, 0, 5), monthTotal),
       recentExpenses |-> [i \in DOMAIN Page(recent, 0, 5) |->
                             WithWholeCategory(cs, recent[i])],
       budgetStatus |-> status,
       averageDailySpending |->
         RoundHundredths(monthTotal, DaysInMonth(today.y, today.m))] :
        top \in ByTotal(CategorySummaries(cs, monthExpenses)),
        recent \in OrderedBy(own, [e \in own |-> e.date], "desc"),
        status \in DashboardBudgetStatus(es, bs, userId, t)}

\* one PeriodSummary for each period spent in, in the order of the periods
\* (period gives each expense its day or month, label each period its key)
PeriodSummaries(es, period, label) ==
  LET periods == {period[e] : e \in es}
      Same(k) == {e \in es : period[e] = k}
  IN {[i \in DOMAIN f |->
         [date |-> label[f[i]], total |-> calculateTotal(Same(f[i])),
          count |-> Cardinality(Same(f[i]))]] :
        f \in OrderedBy(periods, [k \in periods |-> k], "asc")}

ExpenseDay(e) == DayOf(e.date)

ExpenseMonth(e) == LET c == YMD(DayOf(e.date)) IN 12 * c.y + (c.m - 1)

\* toISOString().split('T')[0]
DateKey(day) == YMD(day)

\* year-month, the month padded to two digits
MonthKey(month) == [y |-> month \div 12, m |-> (month % 12) + 1]

\* a grouping keyed by the whole timestamp, not by its date part
getDailyStatisticsByInstant(es, userId, startDate, endDate) ==
  PeriodSummaries({e \in es : /\ e.userId = userId
                              /\ e.date >= startDate
                              /\ e.date <= endDate},
                  [e \in es |-> e.date],
                  [t \in {e.date : e \in es} |-> DateKey(DayOf(t))])

getDailyStatistics(es, userId, startDate, endDate) ==
  PeriodSummaries({e \in es : /\ e.userId = userId
                              /\ e.date >= startDate
                              /\ e.date <= endDate},
                  [e \in es |-> ExpenseDay(e)],
                  [day \in {ExpenseDay(e) : e \in es} |-> DateKey(day)])

\* a window that opens one month too early
getMonthlyStatisticsFromMonthsBack(es, userId, months, t) ==
  LET today == YMD(DayOf(t))
      startDate == FirstOfMonth(today.y, today.m - months)
  IN PeriodSummaries({e \in es : e.userId = userId /\ e.date >= startDate},
                     [e \in es |-> ExpenseMonth(e)],
                     [month \in {ExpenseMonth(e) : e \in es} |-> MonthKey(month)])

getMonthlyStatistics(es, userId, months, t) ==
  LET today == YMD(DayOf(t))
      startDate == FirstOfMonth(today.y, today.m - months + 1)
  IN PeriodSummaries({e \in es : e.userId = userId /\ e.date >= startDate},
                     [e \in es |-> ExpenseMonth(e)],
                     [month \in {ExpenseMonth(e) : e \in es} |-> MonthKey(month)])

\* the categoryMap of getCategoryStatistics
CategoryBreakdowns(cs, es) ==
  {LET of == {e \in es : e.categoryId = id}
       c == CategoryOf(cs, CHOOSE e \in of : TRUE)
   IN [category |-> [id |-> c.id, name |-> c.name, color |-> c.color],
       total |-> calculateTotal(of), count |-> Cardinality(of)] :
     id \in {e.categoryId : e \in es}}

\* a breakdown that leaves out the expenses dated at endDate itself
getCategoryStatisticsBeforeEnd(cs, es, userId, startDate, endDate) ==
  LET matching == {e \in es : /\ e.userId = userId
                              /\ startDate # Absent => e.date >= startDate
                              /\ endDate # Absent => e.date < endDate}
  IN {WithPercentage(f, calculateTotal(matching)) :
        f \in ByTotal(CategoryBreakdowns(cs, matching))}

getCategoryStatistics(cs, es, userId, startDate, endDate) ==
  LET matching == {e \in es : /\ e.userId = userId
                              /\ startDate # Absent => e.date >= startDate
                              /\ endDate # Absent => e.date <= endDate}
  IN {WithPercentage(f, calculateTotal(matching)) :
        f \in ByTotal(CategoryBreakdowns(cs, matching))}

----------------------------------------------------------------------------
(* Initial state: the seeded default categories, nothing else *)

SeedCategories ==
  {[id |-> 1, name |-> "Food", color |-> "#FF6B6B",
    userId |-> NoUser, isDefault |-> TRUE]}

IdleCall ==
  [pc |-> "idle", user |-> NoUser, amount |-> Absent, periodType |-> "absent",
   startDate |-> Absent, endDate |-> Absent, result |-> "none"]

Init ==
  /\ categories = SeedCategories
  /\ expenses = {}
  /\ budgets = {}
  /\ nextCategoryId = Cardinality(SeedCategories) + 1
  /\ nextExpenseId = 1
  /\ nextBudgetId = 1
  /\ now = 1
  /\ calls = [p \in Procs |-> IdleCall]
  /\ last = Result("none", NoUser, NoId, "none", "")

----------------------------------------------------------------------------
(* Budget planner, calls executed one at a time *)

\* requests with an explicit end date
ExplicitBudgetDtos ==
  [amount : Amounts, periodType : {"MONTHLY"},
   startDate : Dates, endDate : Dates]

\* requests that change the dates, or the active flag, or nothing
UpdateBudgetInputs ==
  [amount : {Absent}, periodType : {"absent"},
   startDate : Dates \cup {Absent}, endDate : Dates \cup {Absent},
   isActive : {"absent"}]
  \cup
  [amount : {Absent}, periodType : {"absent"},
   startDate : {Absent}, endDate : {Absent},
   isActive : {"true", "false"}]

BudgetCreateStep ==
  \E u \in Users, dto \in ExplicitBudgetDtos : BudgetCreate(u, dto)

BudgetUpdateStep ==
  \E u \in Users, id \in BudgetIds, dto \in UpdateBudgetInputs :
    BudgetUpdate(u, id, dto)

BudgetRemoveStep == \E u \in Users, id \in BudgetIds : BudgetRemove(u, id)

NextBudgets == BudgetCreateStep \/ BudgetUpdateStep \/ BudgetRemoveStep

SpecBudgets == Init /\ [][NextBudgets]_vars

----------------------------------------------------------------------------
(* Concurrent BudgetsService.create calls: the overlap query and the write *)
(* are separate store calls, each awaited, with no transaction around them *)

\* create up to the awaited findFirst and the check of its answer
CreateQuery(p, u, dto) ==
  /\ calls[p].pc = "idle"
  /\ LET start == dto.startDate
         end == BudgetCreateEnd(dto)
         call == [pc |-> "write", user |-> u, amount |-> dto.amount,
                  periodType |-> dto.periodType, startDate |-> start,
                  endDate |-> end, result |-> "none"]
     IN IF InvalidRange(start, end)
        THEN calls' = [calls EXCEPT ![p] =
                         [call EXCEPT !.pc = "done", !.result = "BadRequest"]]
        ELSE IF OverlappingBudgets(budgets, u, start, end) # {}
        THEN calls' = [calls EXCEPT ![p] =
                         [call EXCEPT !.pc = "done", !.result = "BadRequest"]]
        ELSE calls' = [calls EXCEPT ![p] = call]
  /\ UNCHANGED <<store, now, last>>

CallBudget(id, c) ==
  [id |-> id, userId |-> c.user, amount |-> c.amount,
   periodType |-> c.periodType, startDate |-> c.startDate,
   endDate |-> c.endDate, isActive |-> TRUE]

\* a write the store refuses when it would overlap a stored budget
CreateWriteConstrained(p) ==
  /\ calls[p].pc = "write"
  /\ nextBudgetId \in BudgetIds
  /\ IF OverlappingBudgets(budgets, calls[p].user, calls[p].startDate,
                           calls[p].endDate) # {}
     THEN /\ calls' = [calls EXCEPT ![p].pc = "done",
                                    ![p].result = "BadRequest"]
          /\ UNCHANGED <<budgets, nextBudgetId>>
     ELSE /\ budgets' = budgets \cup {CallBudget(nextBudgetId, calls[p])}
          /\ nextBudgetId' = nextBudgetId + 1
          /\ calls' = [calls EXCEPT ![p].pc = "done", ![p].result = "ok"]
  /\ UNCHANGED <<categories, expenses, nextCategoryId, nextExpenseId,
                 now, last>>

\* the awaited prisma.budget.create
CreateWrite(p) ==
  /\ calls[p].pc = "write"
  /\ nextBudgetId \in BudgetIds
  /\ budgets' = budgets \cup {CallBudget(nextBudgetId, calls[p])}
  /\ nextBudgetId' = nextBudgetId + 1
  /\ calls' = [calls EXCEPT ![p].pc = "done", ![p].result = "ok"]
  /\ UNCHANGED <<categories, expenses, nextCategoryId, nextExpenseId,
                 now, last>>

CreateQueryStep ==
  \E p \in Procs, u \in Users, dto \in ExplicitBudgetDtos : CreateQuery(p, u, dto)

CreateWriteStep == \E p \in Procs : CreateWrite(p)

NextRace == CreateQueryStep \/ CreateWriteStep

SpecRace == Init /\ [][NextRace]_vars

----------------------------------------------------------------------------
(* Category registry and expense ledger, calls executed one at a time *)

\* expense requests that leave the date to the clock
LedgerExpenseDtos ==
  [categoryId : CategoryIds, name : {"Rent"}, amount : Amounts, date : {Absent}]

LedgerExpenseUpdates ==
  [categoryId : CategoryIds \cup {NoId}, name : {None}, amount : {Absent},
   date : {Absent}]

CategoryCreateStep ==
  \E u \in Users, dto \in CreateCategoryDtos : CategoryCreate(u, dto)

CategoryUpdateStep ==
  \E u \in Users, id \in CategoryIds, dto \in UpdateCategoryDtos :
    CategoryUpdate(u, id, dto)

CategoryRemoveStep == \E u \in Users, id \in CategoryIds : CategoryRemove(u, id)

ExpenseCreateStep ==
  \E u \in Users, dto \in LedgerExpenseDtos : ExpenseCreate(u, dto)

ExpenseUpdateStep ==
  \E u \in Users, id \in ExpenseIds, dto \in LedgerExpenseUpdates :
    ExpenseUpdate(u, id, dto)

ExpenseRemoveStep == \E u \in Users, id \in ExpenseIds : ExpenseRemove(u, id)

NextLedger ==
  \/ CategoryCreateStep \/ CategoryUpdateStep \/ CategoryRemoveStep
  \/ ExpenseCreateStep \/ ExpenseUpdateStep \/ ExpenseRemoveStep

SpecLedger == Init /\ [][NextLedger]_vars

----------------------------------------------------------------------------
(* All three services together, calls executed one at a time, with one     *)
(* budget, one user category and two expenses created at most              *)

Tick ==
  /\ now < MaxDate
  /\ now' = now + 1
  /\ UNCHANGED <<store, calls, last>>

FullBudgetDtos ==
  [amount : Amounts, periodType : {"MONTHLY"}, startDate : {2}, endDate : {3}]

FullBudgetUpdates ==
  [amount : {Absent}, periodType : {"absent"}, startDate : {Absent},
   endDate : {2, 4}, isActive : {"absent"}]
  \cup
  [amount : {Absent}, periodType : {"absent"}, startDate : {Absent},
   endDate : {Absent}, isActive : {"false"}]

FullCategoryDtos == [name : Names, color : {None}]

FullCategoryUpdates == [name : Names, color : {None}]

FullBudgetCreateStep ==
  /\ nextBudgetId = 1
  /\ \E u \in Users, dto \in FullBudgetDtos : BudgetCreate(u, dto)

FullBudgetUpdateStep ==
  \E u \in Users, id \in {1}, dto \in FullBudgetUpdates : BudgetUpdate(u, id, dto)

FullBudgetRemoveStep == \E u \in Users, id \in {1} : BudgetRemove(u, id)

FullCategoryCreateStep ==
  /\ nextCategoryId = 2
  /\ \E u \in Users, dto \in FullCategoryDtos : CategoryCreate(u, dto)

FullCategoryUpdateStep ==
  \E u \in Users, id \in {1, 2}, dto \in FullCategoryUpdates :
    CategoryUpdate(u, id, dto)

FullCategoryRemoveStep == \E u \in Users, id \in {1, 2} : CategoryRemove(u, id)

FullExpenseCreateStep ==
  \E u \in Users, dto \in LedgerExpenseDtos : ExpenseCreate(u, dto)

FullExpenseUpdateStep ==
  \E u \in Users, id \in ExpenseIds, dto \in LedgerExpenseUpdates :
    ExpenseUpdate(u, id, dto)

FullExpenseRemoveStep == \E u \in Users, id \in ExpenseIds : ExpenseRemove(u, id)

Next ==
  \/ Tick
  \/ FullBudgetCreateStep \/ FullBudgetUpdateStep \/ FullBudgetRemoveStep
  \/ FullCategoryCreateStep \/ FullCategoryUpdateStep \/ FullCategoryRemoveStep
  \/ FullExpenseCreateStep \/ FullExpenseUpdateStep \/ FullExpenseRemoveStep

Spec == Init /\ [][Next]_vars

----------------------------------------------------------------------------
(* The store the queries are asked of: both users create categories,       *)
(* expenses and budgets while the clock advances                           *)

ReadCategoryDtos == [name : {"Rent"}, color : {None}]

ReadExpenseDtos ==
  {[categoryId |-> 1, name |-> "Rent", amount |-> 5, date |-> Absent],
   [categoryId |-> 2, name |-> "Food", amount |-> 10, date |-> Absent]}

ReadBudgetDtos ==
  {[amount |-> 10, periodType |-> "MONTHLY", startDate |-> 1, endDate |-> 2],
   [amount |-> 10, periodType |-> "MONTHLY", startDate |-> 3, endDate |-> 4]}

ReadCategoryCreateStep ==
  /\ nextCategoryId = 2
  /\ \E u \in Users, dto \in ReadCategoryDtos : CategoryCreate(u, dto)

ReadExpenseCreateStep ==
  \E u \in Users, dto \in ReadExpenseDtos : ExpenseCreate(u, dto)

ReadBudgetCreateStep ==
  \E u \in Users, dto \in ReadBudgetDtos : BudgetCreate(u, dto)

NextReads ==
  \/ Tick
  \/ ReadCategoryCreateStep
  \/ ReadExpenseCreateStep
  \/ ReadBudgetCreateStep

SpecReads == Init /\ [][NextReads]_vars

----------------------------------------------------------------------------
(* Budgets and the spending they are measured against: both users record   *)
(* expenses and create budgets, one of amount 0, a budget's start can be   *)
(* moved back over an earlier budget, and the clock advances               *)

StatusExpenseDtos ==
  {[categoryId |-> 1, name |-> "Rent", amount |-> 5, date |-> Absent],
   [categoryId |-> 1, name |-> "Rent", amount |-> 20, date |-> Absent]}

StatusBudgetDtos ==
  {[amount |-> 15, periodType |-> "MONTHLY", startDate |-> 1, endDate |-> 2],
   [amount |-> 0, periodType |-> "MONTHLY", startDate |-> 3, endDate |-> 4]}

StatusBudgetUpdates ==
  {[amount |-> Absent, periodType |-> "absent", startDate |-> 1,
    endDate |-> Absent, isActive |-> "absent"]}

StatusExpenseCreateStep ==
  \E u \in Users, dto \in StatusExpenseDtos : ExpenseCreate(u, dto)

StatusBudgetCreateStep ==
  \E u \in Users, dto \in StatusBudgetDtos : BudgetCreate(u, dto)

StatusBudgetUpdateStep ==
  \E u \in Users, id \in BudgetIds, dto \in StatusBudgetUpdates :
    BudgetUpdate(u, id, dto)

NextStatus ==
  \/ Tick
  \/ StatusExpenseCreateStep
  \/ StatusBudgetCreateStep
  \/ StatusBudgetUpdateStep

SpecStatus == Init /\ [][NextStatus]_vars

----------------------------------------------------------------------------
(* Statistics over a ledger kept for some weeks: on 5 February 2024 the    *)
(* store holds six default categories and any part of a ledger of ten      *)
(* expenses dated around the starts of the day, the week and the month;    *)
(* both users then record further expenses                                 *)

\* the instant tod ticks into the day that lies the given days after 1 January
At(day, tod) == day * TicksPerDay + tod

LastTick == TicksPerDay - 1

StatsNow == At(35, LastTick)

StatsCategories ==
  {[id |-> 1, name |-> "Food", color |-> "#FF6B6B",
    userId |-> NoUser, isDefault |-> TRUE],
   [id |-> 2, name |-> "Transportation", color |-> "#4ECDC4",
    userId |-> NoUser, isDefault |-> TRUE],
   [id |-> 3, name |-> "Study", color |-> "#45B7D1",
    userId |-> NoUser, isDefault |-> TRUE],
   [id |-> 4, name |-> "Entertainment", color |-> "#FFA07A",
    userId |-> NoUser, isDefault |-> TRUE],
   [id |-> 5, name |-> "Shopping", color |-> "#98D8C8",
    userId |-> NoUser, isDefault |-> TRUE],
   [id |-> 6, name |-> "Utilities", color |-> "#FFD93D",
    userId |-> NoUser, isDefault |-> TRUE]}

Recorded(id, userId, categoryId, amount, date) ==
  [id |-> id, userId |-> userId, categoryId |-> categoryId, name |-> "Rent",
   amount |-> amount, date |-> date, createdAt |-> date]

StatsLedger ==
  {Recorded(11, "u1", 1, 10, StatsNow),
   Recorded(12, "u1", 2, 20, At(35, 0)),
   Recorded(13, "u1", 3, 30, At(34, LastTick)),
   Recorded(14, "u1", 4, 40, At(31, 0)),
   Recorded(15, "u1", 5, 50, At(33, 0)),
   Recorded(16, "u1", 6, 5, At(32, 0)),
   Recorded(17, "u1", 1, 10, At(30, LastTick)),
   Recorded(18, "u1", 3, 7, At(28, LastTick)),
   Recorded(19, "u1", 3, 7, At(28, 0)),
   Recorded(21, "u2", 1, 100, StatsNow)}

StatsExpenseDtos ==
  {[categoryId |-> 6, name |-> "Food", amount |-> 5, date |-> Absent],
   [categoryId |-> 2, name |-> "Food", amount |-> 0, date |-> Absent],
   [categoryId |-> 2, name |-> "Food", amount |-> 5, date |-> At(60, 0)]}

InitStats ==
  /\ categories = StatsCategories
  /\ expenses \in SUBSET StatsLedger
  /\ budgets = {}
  /\ nextCategoryId = Cardinality(StatsCategories) + 1
  /\ nextExpenseId = 1
  /\ nextBudgetId = 1
  /\ now = StatsNow
  /\ calls = [p \in Procs |-> IdleCall]
  /\ last = Result("none", NoUser, NoId, "none", "")

StatsExpenseCreateStep ==
  \E u \in Users, dto \in StatsExpenseDtos : ExpenseCreate(u, dto)

NextStats == StatsExpenseCreateStep

SpecStats == InitStats /\ [][NextStats]_vars

----------------------------------------------------------------------------
(* Properties of the budget planner *)

\* inclusive intersection of [s1, e1] and [s2, e2]
Intersects(s1, e1, s2, e2) == s1 <= e2 /\ s2 <= e1

OverlappingPair(b1, b2) ==
  /\ b1.id # b2.id
  /\ b1.userId = b2.userId
  /\ b1.isActive /\ b2.isActive
  /\ Intersects(b1.startDate, b1.endDate, b2.startDate, b2.endDate)

\* C1: after any sequence of create, update and remove calls executed one
\* at a time, no two active budgets of the same user have intersecting
\* inclusive intervals.
C1_NoOverlappingActiveBudgets ==
  \A b1 \in budgets, b2 \in budgets : ~OverlappingPair(b1, b2)

\* C2: create(U, start, end) with start < end fails with BadRequest
\* (overlapping budget) exactly when some stored active budget of U
\* intersects [start, end] inclusively; otherwise it succeeds and stores
\* the budget. Other users' budgets and inactive budgets are not looked at.
C2_CreateRejectsExactlyOverlap ==
  [][last'.op = "budgetCreate" =>
       \A dto \in ExplicitBudgetDtos :
         (dto.startDate < dto.endDate /\ BudgetCreate(last'.user, dto)) =>
           IF \E b \in budgets :
                /\ b.userId = last'.user
                /\ b.isActive
                /\ Intersects(dto.startDate, dto.endDate,
                              b.startDate, b.endDate)
           THEN /\ last'.result = "BadRequest"
                /\ last'.msg = "OVERLAPPING_BUDGET"
                /\ budgets' = budgets
           ELSE /\ last'.result = "ok"
                /\ \E n \in budgets' \ budgets :
                     /\ budgets' = budgets \cup {n}
                     /\ n.id \notin {b.id : b \in budgets}
                     /\ n.userId = last'.user
                     /\ n.isActive
                     /\ n.startDate = dto.startDate
                     /\ n.endDate = dto.endDate]_vars

\* a create has just succeeded next to an inactive budget of the same user
\* that intersects it
C2_Witness ==
  /\ last.op = "budgetCreate"
  /\ last.result = "ok"
  /\ \E n \in budgets, b \in budgets :
       /\ n.id = last.id
       /\ b.id # n.id
       /\ b.userId = n.userId
       /\ ~b.isActive
       /\ Intersects(n.startDate, n.endDate, b.startDate, b.endDate)

\* C3: two concurrent creates of one user with mutually overlapping
\* intervals that overlap no stored budget can both pass the overlap query
\* before either writes; a call that has passed the query always writes and
\* succeeds, so both succeed and the store then holds two overlapping
\* active budgets of that user.
C3_RacingCreatesBothSucceed ==
  [][\A p \in Procs :
       /\ (calls[p].pc = "write" /\ calls'[p].pc # "write") =>
            /\ calls'[p].result = "ok"
            /\ \E n \in budgets' \ budgets :
                 /\ n.userId = calls[p].user
                 /\ n.isActive
                 /\ n.startDate = calls[p].startDate
                 /\ n.endDate = calls[p].endDate
       /\ \A q \in Procs \ {p} :
            (/\ calls'[p].pc = "done" /\ calls'[p].result = "ok"
             /\ calls'[q].pc = "done" /\ calls'[q].result = "ok"
             /\ calls'[p].user = calls'[q].user
             /\ Intersects(calls'[p].startDate, calls'[p].endDate,
                           calls'[q].startDate, calls'[q].endDate)) =>
               \E b1 \in budgets', b2 \in budgets' : OverlappingPair(b1, b2)]_vars

\* both calls have returned successfully and the store holds their two
\* overlapping active budgets
C3_Witness ==
  /\ \A p \in Procs : calls[p].pc = "done" /\ calls[p].result = "ok"
  /\ \E b1 \in budgets, b2 \in budgets : OverlappingPair(b1, b2)

\* the interval an update request asks for: new values where given, stored
\* values otherwise
RequestedStart(b, dto) ==
  IF dto.startDate = Absent THEN b.startDate ELSE dto.startDate

RequestedEnd(b, dto) ==
  IF dto.endDate = Absent THEN b.endDate ELSE dto.endDate

\* C4: update by the owner runs no overlap check: whenever the merged
\* interval has end > start the update is written, also when the result
\* intersects another active budget of the owner.
C4_UpdateSkipsOverlapCheck ==
  [][last'.op = "budgetUpdate" =>
       \A dto \in UpdateBudgetInputs, b \in budgets :
         (/\ b.id = last'.id /\ b.userId = last'.user
          /\ RequestedEnd(b, dto) > RequestedStart(b, dto)
          /\ BudgetUpdate(last'.user, last'.id, dto)) =>
            /\ last'.result = "ok"
            /\ \E n \in budgets' :
                 /\ n.id = b.id
                 /\ n.startDate = RequestedStart(b, dto)
                 /\ n.endDate = RequestedEnd(b, dto)
                 /\ budgets' \ {n} = budgets \ {b}]_vars

\* an update has just been written that makes two active budgets of the
\* owner intersect
C4_Witness ==
  /\ last.op = "budgetUpdate"
  /\ last.result = "ok"
  /\ \E n \in budgets, b \in budgets : n.id = last.id /\ OverlappingPair(n, b)

\* C5 as stated: every stored budget has endDate > startDate, and create
\* with end <= start as well as every update whose merged start/end has
\* end <= start fails with BadRequest and writes nothing.
C5_RangeCheckedForEveryCaller ==
  [][/\ \A b \in budgets' : b.endDate > b.startDate
     /\ last'.op = "budgetCreate" =>
          \A dto \in ExplicitBudgetDtos :
            (dto.endDate <= dto.startDate /\ BudgetCreate(last'.user, dto)) =>
              (last'.result = "BadRequest" /\ budgets' = budgets)
     /\ last'.op = "budgetUpdate" =>
          \A dto \in UpdateBudgetInputs, b \in budgets :
            (/\ b.id = last'.id
             /\ RequestedEnd(b, dto) <= RequestedStart(b, dto)
             /\ BudgetUpdate(last'.user, last'.id, dto)) =>
               (last'.result = "BadRequest" /\ budgets' = budgets)]_vars

\* C5 (amended): every stored budget has endDate > startDate; create with
\* end <= start, and update by the budget's owner whose merged start/end has
\* end <= start, fail with BadRequest and write nothing; the same update by
\* another user fails with Forbidden and writes nothing.
C5_RangeCheckedForOwner ==
  [][/\ \A b \in budgets' : b.endDate > b.startDate
     /\ last'.op = "budgetCreate" =>
          \A dto \in ExplicitBudgetDtos :
            (dto.endDate <= dto.startDate /\ BudgetCreate(last'.user, dto)) =>
              (last'.result = "BadRequest" /\ budgets' = budgets)
     /\ last'.op = "budgetUpdate" =>
          \A dto \in UpdateBudgetInputs, b \in budgets :
            (/\ b.id = last'.id
             /\ RequestedEnd(b, dto) <= RequestedStart(b, dto)
             /\ BudgetUpdate(last'.user, last'.id, dto)) =>
               /\ budgets' = budgets
               /\ last'.result =
                    IF b.userId = last'.user THEN "BadRequest"
                    ELSE "Forbidden"]_vars

\* an update of a stored budget has just been refused for its date range
C5_Witness ==
  /\ last.op = "budgetUpdate"
  /\ last.result = "BadRequest"
  /\ last.msg = "INVALID_DATE_RANGE"
  /\ \E b \in budgets : b.id = last.id /\ b.userId = last.user

----------------------------------------------------------------------------
(* Properties of the category registry and the expense ledger *)

\* C6: default categories are immutable and undeletable: update and remove
\* of a default category fail with Forbidden for every caller and leave it
\* unchanged, create always stores isDefault = false and userId = caller;
\* hence the default categories are the same rows in every reachable state.
C6_DefaultCategoriesImmutable ==
  [][/\ {c \in categories' : c.isDefault} = SeedCategories
     /\ last'.op \in {"categoryUpdate", "categoryRemove"} =>
          \A c \in categories :
            (c.id = last'.id /\ c.isDefault) =>
              (last'.result = "Forbidden" /\ categories' = categories)
     /\ (last'.op = "categoryCreate" /\ last'.result = "ok") =>
          \E n \in categories' :
            /\ categories' \ {n} = categories
            /\ n \notin categories
            /\ ~n.isDefault
            /\ n.userId = last'.user]_vars

\* a caller has just been refused the update of a default category
C6_Witness ==
  /\ last.op = "categoryUpdate"
  /\ last.result = "Forbidden"
  /\ \E c \in categories : c.id = last.id /\ c.isDefault

VisibleTo(c, userId) == c.userId = userId \/ (c.userId = NoUser /\ c.isDefault)

ExpensesReferToVisibleCategories(es, cs) ==
  \A e \in es : \E c \in cs : c.id = e.categoryId /\ VisibleTo(c, e.userId)

\* C8 as stated: every stored expense references an existing category that
\* is its owner's or a default, and create, and every update that supplies
\* a categoryId, fail with NotFound and write nothing when that category is
\* absent or not visible to the caller.
C8_InvisibleCategoryNotFoundForEveryCaller ==
  [][/\ ExpensesReferToVisibleCategories(expenses', categories')
     /\ last'.op = "expenseCreate" =>
          \A dto \in LedgerExpenseDtos :
            (/\ ~\E c \in categories :
                   c.id = dto.categoryId /\ VisibleTo(c, last'.user)
             /\ ExpenseCreate(last'.user, dto)) =>
               (last'.result = "NotFound" /\ expenses' = expenses)
     /\ last'.op = "expenseUpdate" =>
          \A dto \in LedgerExpenseUpdates :
            (/\ dto.categoryId # NoId
             /\ ~\E c \in categories :
                   c.id = dto.categoryId /\ VisibleTo(c, last'.user)
             /\ ExpenseUpdate(last'.user, last'.id, dto)) =>
               (last'.result = "NotFound" /\ expenses' = expenses)]_vars

\* C8 (amended): every stored expense references an existing category that
\* is its owner's or a default; create, and update by the expense's owner
\* that supplies a categoryId, fail with NotFound and write nothing when
\* that category is absent or not visible to the caller; the same update by
\* another user fails with Forbidden and writes nothing.
C8_InvisibleCategoryNotFoundForOwner ==
  [][/\ ExpensesReferToVisibleCategories(expenses', categories')
     /\ last'.op = "expenseCreate" =>
          \A dto \in LedgerExpenseDtos :
            (/\ ~\E c \in categories :
                   c.id = dto.categoryId /\ VisibleTo(c, last'.user)
             /\ ExpenseCreate(last'.user, dto)) =>
               (last'.result = "NotFound" /\ expenses' = expenses)
     /\ last'.op = "expenseUpdate" =>
          \A dto \in LedgerExpenseUpdates, e \in expenses :
            (/\ e.id = last'.id
             /\ dto.categoryId # NoId
             /\ ~\E c \in categories :
                   c.id = dto.categoryId /\ VisibleTo(c, last'.user)
             /\ ExpenseUpdate(last'.user, last'.id, dto)) =>
               /\ expenses' = expenses
               /\ last'.result =
                    IF e.userId = last'.user THEN "NotFound"
                    ELSE "Forbidden"]_vars

\* the owner of an expense has just been refused moving it to a category
\* that is not visible to them, while another user's category is stored
C8_Witness ==
  /\ last.op = "expenseUpdate"
  /\ last.result = "NotFound"
  /\ last.msg = "CATEGORY_NOT_FOUND"
  /\ \E e \in expenses : e.id = last.id /\ e.userId = last.user
  /\ \E c \in categories : c.userId \notin {last.user, NoUser}

----------------------------------------------------------------------------
(* Properties of the three services together *)

UpdateOrRemoveOn(op, rows, caller, id) ==
  /\ op
  /\ \E r \in rows : r.id = id /\ r.userId # caller

\* C9: no call changes or deletes a row of a user other than the caller, and
\* an update or a remove of an expense, a budget or a category whose stored
\* userId differs from the caller's answers Forbidden and changes nothing.
C9_NoWriteToAnotherUsersRow ==
  [][/\ \A e \in expenses : e.userId # last'.user => e \in expenses'
     /\ \A b \in budgets : b.userId # last'.user => b \in budgets'
     /\ \A c \in categories : c.userId # last'.user => c \in categories'
     /\ (\/ UpdateOrRemoveOn(last'.op \in {"expenseUpdate", "expenseRemove"},
                             expenses, last'.user, last'.id)
         \/ UpdateOrRemoveOn(last'.op \in {"budgetUpdate", "budgetRemove"},
                             budgets, last'.user, last'.id)
         \/ UpdateOrRemoveOn(last'.op \in {"categoryUpdate", "categoryRemove"},
                             categories, last'.user, last'.id))
          => (last'.result = "Forbidden" /\ store' = store)]_vars

C9_Witness ==
  /\ last.op = "expenseRemove"
  /\ last.result = "Forbidden"
  /\ \E e \in expenses : e.id = last.id /\ e.userId \in Users \ {last.user}
  /\ \E b \in budgets : b.userId \in Users \ {last.user}
  /\ \E c \in categories : c.userId \in Users \ {last.user}

----------------------------------------------------------------------------
(* Properties of the queries *)

\* what a user's own part of a table is
OwnRows(rows, userId) == {r \in rows : r.userId = userId}

OwnAndDefault(cs, userId) ==
  {c \in cs : c.userId = userId \/ (c.userId = NoUser /\ c.isDefault)}

SortingQueries ==
  [page : 1..2, limit : 1..3, sortBy : {"date", "amount", "name", "createdAt"},
   order : {"asc", "desc"}, categoryId : {NoId},
   startDate : {Absent}, endDate : {Absent},
   minAmount : {Absent}, maxAmount : {Absent}]

FilteringQueries ==
  [page : {1}, limit : {3}, sortBy : {"date"}, order : {"desc"},
   categoryId : {NoId, 1, 2},
   startDate : {Absent, 2}, endDate : {Absent, 3},
   minAmount : {Absent, 10}, maxAmount : {Absent, 5}]

ScopedToCaller(u, cs, es, bs, t) ==
  LET ownCs == OwnAndDefault(cs, u)
      ownEs == OwnRows(es, u)
      ownBs == OwnRows(bs, u)
  IN /\ CategoryFindAll(cs, u) = CategoryFindAll(ownCs, u)
     /\ \A id \in CategoryIds :
          CategoryFindOne(cs, id, u) = CategoryFindOne(ownCs, id, u)
     /\ \A q \in SortingQueries \cup FilteringQueries :
          ExpenseFindAll(cs, es, u, q) = ExpenseFindAll(ownCs, ownEs, u, q)
     /\ \A id \in ExpenseIds :
          ExpenseFindOne(cs, es, id, u) = ExpenseFindOne(ownCs, ownEs, id, u)
     /\ \A limit \in 1..2 :
          ExpenseFindRecent(cs, es, u, limit)
            = ExpenseFindRecent(ownCs, ownEs, u, limit)
     /\ \A isActive \in {"absent", "true", "false"} :
          BudgetFindAll(bs, u, isActive) = BudgetFindAll(ownBs, u, isActive)
     /\ \A id \in BudgetIds :
          /\ BudgetFindOne(bs, id, u) = BudgetFindOne(ownBs, id, u)
          /\ BudgetGetStatus(es, bs, id, u, t)
               = BudgetGetStatus(ownEs, ownBs, id, u, t)
     /\ BudgetFindCurrent(es, bs, u, t) = BudgetFindCurrent(ownEs, ownBs, u, t)
     /\ getDashboard(cs, es, bs, u, t) = getDashboard(ownCs, ownEs, ownBs, u, t)
     /\ \A startDate, endDate \in Dates :
          getDailyStatistics(es, u, startDate, endDate)
            = getDailyStatistics(ownEs, u, startDate, endDate)
     /\ \A months \in {0, 1, 6} :
          getMonthlyStatistics(es, u, months, t)
            = getMonthlyStatistics(ownEs, u, months, t)
     /\ \A startDate, endDate \in {Absent, 2, 3} :
          getCategoryStatistics(cs, es, u, startDate, endDate)
            = getCategoryStatistics(ownCs, ownEs, u, startDate, endDate)

\* C10: every query a user makes returns what it would return from a store
\* holding only that user's rows and the default categories, so two stores
\* that agree on these give the user the same results; findOne of an expense
\* or a budget of another user answers NotFound as it does for an id that
\* no row has.
C10_ReadsScopedToCaller ==
  \A u \in Users :
    /\ ScopedToCaller(u, categories, expenses, budgets, now)
    /\ \A e \in expenses :
         e.userId # u =>
           ExpenseFindOne(categories, expenses, e.id, u)
             = ExpenseFindOne(categories, {}, e.id, u)
    /\ \A b \in budgets :
         b.userId # u => BudgetFindOne(budgets, b.id, u) = BudgetFindOne({}, b.id, u)

C10_Witness ==
  \E u \in Users, v \in Users :
    /\ u # v
    /\ \E e \in expenses, f \in expenses :
         /\ e.userId = u /\ f.userId = v
         /\ ExpenseFindOne(categories, expenses, f.id, u) = {NotFound("NOT_FOUND")}
         /\ ExpenseFindOne(categories, expenses, e.id, u)
              = {Found(WithCategory(categories, e))}
    /\ \E b \in budgets, c \in budgets :
         /\ b.userId = u /\ c.userId = v
         /\ BudgetFindOne(budgets, c.id, u) = {NotFound("NOT_FOUND")}
         /\ b.startDate <= now /\ now <= b.endDate
         /\ c.startDate <= now /\ now <= c.endDate
    /\ \E c \in categories : c.userId = v

----------------------------------------------------------------------------
(* Properties of category names *)

\* C11: create(U, name) answers Conflict and stores nothing when a category
\* of that name is owned by U or has no owner, and otherwise stores a
\* category of that name owned by U; a category of the same name owned by
\* another user plays no part.
C11_CreateConflictsOnVisibleName ==
  [][last'.op = "categoryCreate" =>
       \A dto \in CreateCategoryDtos :
         CategoryCreate(last'.user, dto) =>
           IF \E c \in categories :
                c.name = dto.name /\ c.userId \in {last'.user, NoUser}
           THEN last'.result = "Conflict" /\ categories' = categories
           ELSE /\ last'.result = "ok"
                /\ \E n \in categories' :
                     /\ n \notin categories
                     /\ categories' = categories \cup {n}
                     /\ n.name = dto.name
                     /\ n.userId = last'.user]_vars

\* a user has just created a category under a name another user already uses
C11_Witness ==
  /\ last.op = "categoryCreate"
  /\ last.result = "ok"
  /\ \E n \in categories, c \in categories :
       /\ n.id = last.id
       /\ c.name = n.name
       /\ c.userId \in Users \ {last.user}

\* C12: update by the owner of a non-default category answers Conflict
\* exactly when it carries a name that another category of the caller, of a
\* different id, already has; categories of other users and the default ones
\* are not looked at, the current name of the target is accepted, and an
\* update without a name is never refused.
C12_RenameConflictsOnOwnNamesOnly ==
  [][last'.op = "categoryUpdate" =>
       \A dto \in UpdateCategoryDtos, c \in categories :
         (/\ c.id = last'.id /\ c.userId = last'.user /\ ~c.isDefault
          /\ CategoryUpdate(last'.user, last'.id, dto)) =>
           IF /\ dto.name # None
              /\ \E x \in categories \ {c} :
                   x.userId = last'.user /\ x.name = dto.name
           THEN last'.result = "Conflict" /\ categories' = categories
           ELSE /\ last'.result = "ok"
                /\ \E n \in categories' :
                     /\ n.id = c.id
                     /\ n.name = IF dto.name # None THEN dto.name ELSE c.name
                     /\ categories' \ {n} = categories \ {c}]_vars

\* the owner has just been refused a rename onto another category of theirs,
\* while a default category carries the name the target keeps
C12_Witness ==
  /\ last.op = "categoryUpdate"
  /\ last.result = "Conflict"
  /\ \E c \in categories, x \in categories, d \in categories :
       /\ c.id = last.id /\ c.userId = last.user
       /\ x.id # c.id /\ x.userId = last.user /\ x.name # c.name
       /\ d.isDefault /\ d.name = c.name

----------------------------------------------------------------------------
(* Properties of the current budget *)

HasCurrentBudget(u) ==
  \E b \in budgets :
    b.userId = u /\ b.isActive /\ b.startDate <= now /\ now <= b.endDate

----------------------------------------------------------------------------
(* Properties of the budget figures *)

\* the sum of the amounts of a set of expenses, taken in the order of ids
RECURSIVE AmountSum(_)
AmountSum(es) ==
  IF es = {} THEN 0
  ELSE LET e == CHOOSE x \in es : \A y \in es : y.id <= x.id
       IN AmountSum(es \ {e}) + e.amount

\* p is the quotient n / d rounded to the nearest integer, halves upwards
IsRounded(p, n, d) == 2 * d * p <= 2 * n + d /\ 2 * n + d < 2 * d * (p + 1)

\* days is the least whole number of days, none below zero, covering ticks
IsDaysCovering(days, ticks) ==
  /\ days >= 0
  /\ days * TicksPerDay >= ticks
  /\ days > 0 => (days - 1) * TicksPerDay < ticks

\* the expenses of a user dated within a budget, ends included
SpentWithin(b, u) ==
  {e \in expenses : e.userId = u /\ b.startDate <= e.date /\ e.date <= b.endDate}

\* C15: for the budget B findCurrent(U) returns, spent is the sum of U's
\* expenses dated within [B.startDate, B.endDate] and of no others,
\* remaining is amount - spent, below zero when overspent, percentage is
\* spent / amount * 100 rounded to two decimals (kept in hundredths), not
\* clamped at 100 and 0 for an amount of 0, and daysRemaining is
\* max(0, ceil((endDate - now) / 1 day)).
C15_CurrentBudgetFigures ==
  \A u \in Users :
    \A x \in BudgetFindCurrent(expenses, budgets, u, now) :
      x # Null =>
        LET spent == AmountSum(SpentWithin(x.budget, u))
        IN /\ x.spentAmount = spent
           /\ x.remainingAmount = x.budget.amount - spent
           /\ IF x.budget.amount = 0 THEN x.percentage = 0
              ELSE IsRounded(x.percentage, 100 * 100 * spent, x.budget.amount)
           /\ IsDaysCovering(x.daysRemaining, x.budget.endDate - now)
           /\ x.daysRemaining >= 0

\* an overspent budget on its last day, with an expense of the other user
\* dated inside it
C15_Witness ==
  \E u \in Users :
    \E x \in BudgetFindCurrent(expenses, budgets, u, now) :
      /\ x # Null
      /\ x.budget.amount > 0
      /\ x.remainingAmount < 0
      /\ x.percentage > 100 * 100
      /\ x.percentage % 100 # 0
      /\ x.daysRemaining = 0
      /\ \E e \in expenses :
           /\ e.userId # u
           /\ x.budget.startDate <= e.date /\ e.date <= x.budget.endDate

\* the budgetStatus fields of the dashboards a user can be given
DashboardStatuses(u) ==
  {d.budgetStatus : d \in getDashboard(categories, expenses, budgets, u, now)}

\* the figures getStatus gives agree with those of a findCurrent result
SameFigures(s, x) ==
  /\ s.result = "ok"
  /\ s.value.budget = x.budget
  /\ s.value.spentAmount = x.spentAmount
  /\ s.value.remainingAmount = x.remainingAmount
  /\ s.value.percentage = x.percentage
  /\ s.value.daysRemaining = x.daysRemaining

\* the budgetStatus of a dashboard agrees with a findCurrent result
SameStatus(d, x) ==
  /\ d # Null
  /\ d.budgetId = x.budget.id
  /\ d.amount = x.budget.amount
  /\ d.spent = x.spentAmount
  /\ d.remaining = x.remainingAmount
  /\ d.percentage = x.percentage
  /\ d.daysRemaining = x.daysRemaining

\* getStatus of the budget findCurrent returned gives the same figures
StatusAgreesWithCurrent(u) ==
  \A x \in BudgetFindCurrent(expenses, budgets, u, now) :
    x # Null =>
      \A s \in BudgetGetStatus(expenses, budgets, x.budget.id, u, now) :
        SameFigures(s, x)

----------------------------------------------------------------------------
(* Properties of the statistics *)

RECURSIVE SumOver(_, _)
\* the sum of value[i] over the indices in I
SumOver(value, I) ==
  IF I = {} THEN 0
  ELSE LET i == CHOOSE x \in I : TRUE
       IN value[i] + SumOver(value, I \ {i})

\* the totals of a list of entries never increase along the list
NonIncreasing(r) ==
  \A i \in 1..(Len(r) - 1) : r[i].entry.total >= r[i + 1].entry.total

\* p is part / whole * 100 rounded to two decimals, in hundredths, or 0 for
\* a whole of 0
IsShare(p, part, whole) ==
  IF whole = 0 THEN p = 0 ELSE IsRounded(p, 100 * 100 * part, whole)

StatsBounds == {Absent, At(28, LastTick), At(31, 0), At(34, LastTick)}

\* the expenses of a user within optional date bounds, ends included
Matching(u, startDate, endDate) ==
  {e \in expenses : /\ e.userId = u
                    /\ startDate # Absent => startDate <= e.date
                    /\ endDate # Absent => e.date <= endDate}

\* C17: getCategoryStatistics(U, start?, end?) has exactly one entry for each
\* category among U's expenses within the optional bounds, ends included;
\* an entry's total and count are the sum and the number of that category's
\* matching expenses, so totals add up to the grand total and counts to the
\* number of matching expenses; percentage is total / grand total * 100
\* rounded to two decimals, 0 for a grand total of 0; entries come by total,
\* largest first.
C17_CategoryStatistics ==
  \A u \in Users, startDate \in StatsBounds, endDate \in StatsBounds :
    LET matching == Matching(u, startDate, endDate)
        results == getCategoryStatistics(categories, expenses, u,
                                         startDate, endDate)
    IN /\ results # {}
       /\ \A r \in results :
            /\ Len(r) = Cardinality({e.categoryId : e \in matching})
            /\ {r[i].entry.category.id : i \in 1..Len(r)}
                 = {e.categoryId : e \in matching}
            /\ \A i \in 1..Len(r) :
                 LET of == {e \in matching :
                              e.categoryId = r[i].entry.category.id}
                 IN /\ r[i].entry.total = AmountSum(of)
                    /\ r[i].entry.count = Cardinality(of)
                    /\ IsShare(r[i].percentage, AmountSum(of),
                               AmountSum(matching))
            /\ SumOver([i \in 1..Len(r) |-> r[i].entry.total], 1..Len(r))
                 = AmountSum(matching)
            /\ SumOver([i \in 1..Len(r) |-> r[i].entry.count], 1..Len(r))
                 = Cardinality(matching)
            /\ NonIncreasing(r)

\* a breakdown over three categories or more with a share that needed
\* rounding, expenses of the caller at both bounds, before the first and
\* past the second, and an expense of the other user in the store
C17_Witness ==
  \E r \in getCategoryStatistics(categories, expenses, "u1",
                                 At(28, LastTick), At(34, LastTick)) :
    /\ Len(r) >= 3
    /\ \E i \in 1..Len(r) : r[i].percentage % 100 # 0
    /\ \E i \in 1..Len(r) : r[i].entry.count > 1
    /\ \E e \in expenses : e.userId = "u1" /\ e.date = At(28, LastTick)
    /\ \E e \in expenses : e.userId = "u1" /\ e.date < At(28, LastTick)
    /\ \E e \in expenses : e.userId = "u1" /\ e.date = At(34, LastTick)
    /\ \E e \in expenses : e.userId = "u1" /\ e.date > At(34, LastTick)
    /\ \E e \in expenses : e.userId = "u2"

\* midnight of the first day of the month the instant t lies in
MonthStartOf(t) ==
  CHOOSE m \in 0..t :
    /\ m % TicksPerDay = 0
    /\ YMD(m \div TicksPerDay).d = 1
    /\ YMD(m \div TicksPerDay).m = YMD(t \div TicksPerDay).m
    /\ YMD(m \div TicksPerDay).y = YMD(t \div TicksPerDay).y

\* the expenses of a user dated at or after an instant
Since(u, t) == {e \in expenses : e.userId = u /\ e.date >= t}

Dashboards(u) == getDashboard(categories, expenses, budgets, u, now)

\* C18: topCategories of getDashboard(U) has at most 5 entries, which are the
\* categories with the largest sums among U's expenses dated on or after
\* the first day of the current month, largest first; each percentage is
\* the category's sum over monthTotal, the total of all the month's
\* categories, times 100 rounded to two decimals, or 0 when monthTotal is 0.
C18_TopCategories ==
  \A u \in Users :
    LET month == Since(u, MonthStartOf(now))
        spentIn == {e.categoryId : e \in month}
        Sum(c) == AmountSum({e \in month : e.categoryId = c})
    IN \A d \in Dashboards(u) :
         LET top == d.topCategories
             listed == {top[i].entry.categoryId : i \in 1..Len(top)}
         IN /\ Len(top) <= 5
            /\ Len(top) = Min(5, Cardinality(spentIn))
            /\ Cardinality(listed) = Len(top)
            /\ listed \subseteq spentIn
            /\ \A i \in 1..Len(top) :
                 /\ top[i].entry.total = Sum(top[i].entry.categoryId)
                 /\ IsShare(top[i].percentage, top[i].entry.total,
                            AmountSum(month))
                 /\ \A c \in spentIn \ listed : Sum(c) <= top[i].entry.total
            /\ NonIncreasing(top)

\* six categories spent in this month, so one is left out, its sum equal to
\* the smallest one listed, and an expense of the last day of the month
\* before
C18_Witness ==
  \E d \in Dashboards("u1") :
    LET top == d.topCategories
        month == Since("u1", At(31, 0))
    IN /\ Len(top) = 5
       /\ Cardinality({e.categoryId : e \in month}) = 6
       /\ \E c \in {e.categoryId : e \in month} :
            /\ \A i \in 1..5 : top[i].entry.categoryId # c
            /\ AmountSum({e \in month : e.categoryId = c}) = top[5].entry.total
       /\ \E e \in expenses : e.userId = "u1" /\ e.date = At(30, LastTick)
       /\ top[1].percentage % 100 # 0

\* C19: getDashboard(U) gives as todayTotal, weekTotal and monthTotal the
\* sums of U's expenses dated at or after midnight today, now minus 7 days
\* and the first day of the current month; for a user with no expenses the
\* three totals and averageDailySpending are 0 and topCategories and
\* recentExpenses are empty.
C19_DashboardTotals ==
  \A u \in Users :
    \A d \in Dashboards(u) :
      /\ d.todayTotal = AmountSum(Since(u, now - (now % TicksPerDay)))
      /\ d.weekTotal = AmountSum(Since(u, now - 7 * TicksPerDay))
      /\ d.monthTotal = AmountSum(Since(u, MonthStartOf(now)))
      /\ (\A e \in expenses : e.userId # u) =>
           /\ d.todayTotal = 0
           /\ d.weekTotal = 0
           /\ d.monthTotal = 0
           /\ d.averageDailySpending = 0
           /\ d.topCategories = <<>>
           /\ d.recentExpenses = <<>>

\* a ledger with expenses at and just before each of the three starts, and
\* an expense of the other user today
C19_Witness ==
  /\ \A date \in {At(35, 0), At(34, LastTick), At(28, LastTick), At(28, 0),
                  At(31, 0), At(30, LastTick)} :
       \E e \in expenses : e.userId = "u1" /\ e.date = date
  /\ \E e \in expenses : e.userId = "u2" /\ e.date >= At(35, 0)
  /\ \E d \in Dashboards("u1") :
       /\ 0 < d.todayTotal
       /\ d.todayTotal < d.monthTotal
       /\ d.monthTotal < d.weekTotal

----------------------------------------------------------------------------
(* Properties of the expense list *)

PagingQueries ==
  [page : {1, 3, 7}, limit : {1, 3}, sortBy : {"date"}, order : {"desc"},
   categoryId : {NoId, 3}, startDate : {Absent}, endDate : {Absent},
   minAmount : {Absent, 7}, maxAmount : {Absent}]

\* the expenses of a user that pass the filters of a query
Filtered(u, q) ==
  {e \in expenses :
     /\ e.userId = u
     /\ q.categoryId = NoId \/ e.categoryId = q.categoryId
     /\ q.startDate = Absent \/ q.startDate <= e.date
     /\ q.endDate = Absent \/ e.date <= q.endDate
     /\ q.minAmount = Absent \/ q.minAmount <= e.amount
     /\ q.maxAmount = Absent \/ e.amount <= q.maxAmount}

\* min(limit, server maximum)
EffectiveLimit(q) == IF q.limit <= MAX_LIMIT THEN q.limit ELSE MAX_LIMIT

\* C20: findAll(U, page, limit) gives pagination.total as the number of U's
\* expenses that pass the filters, pagination.limit as min(limit, server
\* maximum) and pagination.totalPages as ceil(total / min(limit, server
\* maximum)), and the page holds at most min(limit, server maximum) records.
C20_Pagination ==
  \A u \in Users, q \in PagingQueries :
    \A r \in ExpenseFindAll(categories, expenses, u, q) :
      /\ r.total = Cardinality(Filtered(u, q))
      /\ r.limit = EffectiveLimit(q)
      /\ r.totalPages * EffectiveLimit(q) >= r.total
      /\ (r.totalPages - 1) * EffectiveLimit(q) < r.total
      /\ r.totalPages >= 0
      /\ Len(r.expenses) <= EffectiveLimit(q)
      /\ \A i \in 1..Len(r.expenses) : r.expenses[i].expense \in Filtered(u, q)

\* the third page of a filtered list asked with a limit above the server
\* maximum, the total not a multiple of the page size
C20_Witness ==
  \E q \in PagingQueries :
    \E r \in ExpenseFindAll(categories, expenses, "u1", q) :
      /\ q.limit > MAX_LIMIT
      /\ q.minAmount # Absent
      /\ q.page = 3
      /\ r.total % r.limit # 0
      /\ r.totalPages = 4
      /\ Len(r.expenses) >= 1
      /\ \E e \in expenses : e.userId = "u1" /\ e \notin Filtered("u1", q)
      /\ \E e \in expenses : e.userId = "u2"

----------------------------------------------------------------------------
(* Budgets created without an end date: creates that leave endDate out,   *)
(* starting on days around the ends of months and of the year, and removes *)

DefaultStartDays == {29, 30, 31, 59, 90, 365}

DefaultBudgetDtos ==
  [amount : Amounts, periodType : PeriodTypes,
   startDate : {At(d, tod) : d \in DefaultStartDays, tod \in {0, LastTick}},
   endDate : {Absent}]

DefaultBudgetCreateStep ==
  \E u \in Users, dto \in DefaultBudgetDtos : BudgetCreate(u, dto)

DefaultBudgetRemoveStep ==
  \E u \in Users, id \in BudgetIds : BudgetRemove(u, id)

NextDefaults == DefaultBudgetCreateStep \/ DefaultBudgetRemoveStep

SpecDefaults == Init /\ [][NextDefaults]_vars

----------------------------------------------------------------------------
(* Properties of the default end date *)

\* the year-month after the one of calendar day c
MonthAfter(c) ==
  IF c.m = 12 THEN [y |-> c.y + 1, m |-> 1] ELSE [y |-> c.y, m |-> c.m + 1]

\* e is the instant one calendar month after s: the same time on the same
\* day number of the next month, the days that month lacks counted on into
\* the month after it (31 January + 1 month = 2 March in a leap year)
IsOneMonthAfter(s, e) ==
  LET c == YMD(DayOf(s))
      n == MonthAfter(c)
      x == YMD(DayOf(e))
  IN /\ TimeOfDay(e) = TimeOfDay(s)
     /\ IF c.d <= DaysInMonth(n.y, n.m)
        THEN x = [y |-> n.y, m |-> n.m, d |-> c.d]
        ELSE x = [y |-> MonthAfter(n).y, m |-> MonthAfter(n).m,
                  d |-> c.d - DaysInMonth(n.y, n.m)]

\* C21: a create that carries no endDate never fails the date-range check,
\* and the budget it stores ends 6 days after its start when WEEKLY and one
\* day before (start + 1 calendar month) when MONTHLY, strictly after its
\* start in both cases
C21_DefaultEndDate ==
  [][last'.op = "budgetCreate" =>
       \A dto \in DefaultBudgetDtos :
         BudgetCreate(last'.user, dto) =>
           /\ last'.msg # "INVALID_DATE_RANGE"
           /\ last'.result = "ok" =>
                \E b \in budgets' \ budgets :
                  /\ b.id = last'.id
                  /\ b.startDate = dto.startDate
                  /\ b.endDate > b.startDate
                  /\ dto.periodType = "WEEKLY" =>
                       b.endDate = b.startDate + 6 * TicksPerDay
                  /\ dto.periodType = "MONTHLY" =>
                       IsOneMonthAfter(b.startDate,
                                       b.endDate + TicksPerDay)]_vars

\* a MONTHLY budget stored from 31 January without an end date, whose month
\* runs over the end of February, next to a WEEKLY one stored the same way
C21_Witness ==
  /\ last.op = "budgetCreate" /\ last.result = "ok"
  /\ \E b \in budgets :
       /\ b.periodType = "MONTHLY"
       /\ YMD(DayOf(b.startDate)) = [y |-> 2024, m |-> 1, d |-> 31]
       /\ YMD(DayOf(b.endDate)) = [y |-> 2024, m |-> 3, d |-> 1]
  /\ \E b \in budgets :
       /\ b.periodType = "WEEKLY"
       /\ b.endDate = b.startDate + 6 * TicksPerDay

----------------------------------------------------------------------------
(* Expenses and their dates: both users record expenses with and without a *)
(* date, re-date and rename them and delete them, while the clock advances *)

DatedExpenseDtos ==
  [categoryId : SeedCategoryIds, name : {"Rent"}, amount : Amounts,
   date : {Absent, 3}]

DatedExpenseUpdates ==
  {[categoryId |-> NoId, name |-> None, amount |-> Absent, date |-> 4],
   [categoryId |-> NoId, name |-> "Food", amount |-> Absent, date |-> Absent]}

DatedExpenseCreateStep ==
  \E u \in Users, dto \in DatedExpenseDtos : ExpenseCreate(u, dto)

DatedExpenseUpdateStep ==
  \E u \in Users, id \in ExpenseIds, dto \in DatedExpenseUpdates :
    ExpenseUpdate(u, id, dto)

DatedExpenseRemoveStep ==
  \E u \in Users, id \in ExpenseIds : ExpenseRemove(u, id)

NextDates ==
  \/ Tick
  \/ DatedExpenseCreateStep
  \/ DatedExpenseUpdateStep
  \/ DatedExpenseRemoveStep

SpecDates == Init /\ [][NextDates]_vars

----------------------------------------------------------------------------
(* Properties of the expense date *)

\* the step wrote to expense id: an update or a removal of it that succeeded
WroteExpense(id) ==
  /\ last'.op \in {"expenseUpdate", "expenseRemove"}
  /\ last'.id = id
  /\ last'.result = "ok"

\* what findOne(id, userId) answers after the step
FindOneAfter(id, userId) == ExpenseFindOne(categories', expenses', id, userId)

\* C22: create stores the current instant as date when the request carries
\* none and the supplied date otherwise, and findOne by the owner returns
\* that date, right after the create and after every later step that is not
\* an update (or removal) of the expense
C22_CreateDateRoundTrip ==
  [][/\ (last'.op = "expenseCreate" /\ last'.result = "ok") =>
          \A dto \in DatedExpenseDtos :
            ExpenseCreate(last'.user, dto) =>
              \A r \in FindOneAfter(last'.id, last'.user) :
                /\ r.result = "ok"
                /\ r.value.expense.date =
                     IF dto.date = Absent THEN now ELSE dto.date
     /\ \A e \in expenses :
          ~WroteExpense(e.id) =>
             \A r \in FindOneAfter(e.id, e.userId) :
               r.result = "ok" /\ r.value.expense.date = e.date]_vars

\* later than both creations, after a re-dating update of another expense was
\* refused: one expense dated ahead of its creation by the request, and one
\* dated by the clock
C22_Witness ==
  /\ last.op = "expenseUpdate" /\ last.result = "Forbidden"
  /\ \E e \in expenses, f \in expenses :
       /\ e.date = 3 /\ e.createdAt = 1
       /\ f.date = 2 /\ f.createdAt = 2
       /\ now > f.createdAt
       /\ \A r \in ExpenseFindOne(categories, expenses, e.id, e.userId) :
            r.result = "ok" /\ r.value.expense.date = 3
       /\ \A r \in ExpenseFindOne(categories, expenses, f.id, f.userId) :
            r.result = "ok" /\ r.value.expense.date = 2

----------------------------------------------------------------------------
(* Properties of the daily and monthly statistics *)

\* the calendar day of an instant, as year, month and day
CalendarDay(t) == YMD((t - (t % TicksPerDay)) \div TicksPerDay)

\* calendar day a comes before calendar day b
DayBefore(a, b) ==
  \/ a.y < b.y
  \/ a.y = b.y /\ a.m < b.m
  \/ a.y = b.y /\ a.m = b.m /\ a.d < b.d

DailyBounds == {At(28, 0), At(28, LastTick), At(31, 0), At(35, 0), StatsNow}

\* C23: getDailyStatistics(U, start, end) has exactly one entry for each
\* calendar day on which U has an expense with start <= date <= end, its
\* total and count the sum and the number of those expenses of that day; no
\* day comes twice, no other day appears, and days come in ascending order
C23_DailyStatistics ==
  \A u \in Users, startDate \in DailyBounds, endDate \in DailyBounds :
    LET matching == Matching(u, startDate, endDate)
        days == {CalendarDay(e.date) : e \in matching}
        results == getDailyStatistics(expenses, u, startDate, endDate)
    IN /\ results # {}
       /\ \A r \in results :
            /\ Len(r) = Cardinality(days)
            /\ {r[i].date : i \in 1..Len(r)} = days
            /\ \A i \in 1..Len(r) :
                 LET of == {e \in matching : CalendarDay(e.date) = r[i].date}
                 IN /\ r[i].total = AmountSum(of)
                    /\ r[i].count = Cardinality(of)
            /\ \A i \in 1..Len(r), j \in 1..Len(r) :
                 i < j => DayBefore(r[i].date, r[j].date)

\* a range from 29 January into 5 February: a day with two expenses at
\* different times, days of both months in order, and the expense-free
\* 30 January left out
C23_Witness ==
  \E r \in getDailyStatistics(expenses, "u1", At(28, 0), StatsNow) :
    /\ Len(r) >= 4
    /\ r[1].date = [y |-> 2024, m |-> 1, d |-> 29] /\ r[1].count = 2
    /\ r[2].date = [y |-> 2024, m |-> 1, d |-> 31]
    /\ r[3].date.m = 2
    /\ r[Len(r)].date = [y |-> 2024, m |-> 2, d |-> 5]
    /\ r[Len(r)].count >= 2

\* the year-month of an instant, counted in months
MonthIndex(t) == LET c == CalendarDay(t) IN 12 * c.y + c.m

\* the same count for a key of the monthly statistics
KeyIndex(k) == 12 * k.y + k.m

MonthCounts == {1, 2, 6}

\* the monthly aggregates add up U's expenses dated in or after the month
\* that lies months - 1 before the current one, month by month, ascending
MonthlyAggregates(u, months) ==
  LET first == MonthIndex(now) - months + 1
      matching == {e \in expenses : e.userId = u /\ MonthIndex(e.date) >= first}
      results == getMonthlyStatistics(expenses, u, months, now)
  IN /\ results # {}
     /\ \A r \in results :
          /\ Len(r) = Cardinality({MonthIndex(e.date) : e \in matching})
          /\ {KeyIndex(r[i].date) : i \in 1..Len(r)}
               = {MonthIndex(e.date) : e \in matching}
          /\ \A i \in 1..Len(r) :
               LET of == {e \in matching :
                            MonthIndex(e.date) = KeyIndex(r[i].date)}
               IN /\ r[i].date.m \in 1..12
                  /\ r[i].total = AmountSum(of)
                  /\ r[i].count = Cardinality(of)
                  /\ KeyIndex(r[i].date) >= first
          /\ \A i \in 1..Len(r), j \in 1..Len(r) :
               i < j => KeyIndex(r[i].date) < KeyIndex(r[j].date)

\* the result stays within the last months calendar months
WithinLastMonths(u, months) ==
  \A r \in getMonthlyStatistics(expenses, u, months, now) :
    /\ Len(r) <= months
    /\ \A i \in 1..Len(r) : KeyIndex(r[i].date) <= MonthIndex(now)

\* C24 as stated: getMonthlyStatistics(U, months) has one entry per
\* year-month, among the current month and the months - 1 before it, in
\* which U has an expense, with that month's sum and count; at most months
\* entries and none for a month before or after that window
C24_MonthlyOnlyLastMonths ==
  \A u \in Users, months \in MonthCounts :
    MonthlyAggregates(u, months) /\ WithinLastMonths(u, months)

\* C24: getMonthlyStatistics(U, months) has one entry per year-month, from
\* the month months - 1 before the current one onward, in which U has an
\* expense, with that month's sum and count; none for an earlier month,
\* while months after the current one are included
C24_MonthlyFromWindowStartOnward ==
  \A u \in Users, months \in MonthCounts : MonthlyAggregates(u, months)

\* asked for the last month only: January's expenses are left out, and an
\* expense dated 1 March makes a second entry after the current month's
C24_Witness ==
  /\ \E e \in expenses : e.userId = "u1" /\ MonthIndex(e.date) < MonthIndex(now)
  /\ \E r \in getMonthlyStatistics(expenses, "u1", 1, now) :
       /\ Len(r) = 2
       /\ r[1].date = [y |-> 2024, m |-> 2] /\ r[1].count >= 2
       /\ r[2].date = [y |-> 2024, m |-> 3]

----------------------------------------------------------------------------
(* Properties of failed calls *)

Failures == {"NotFound", "Forbidden", "Conflict", "BadRequest"}

----------------------------------------------------------------------------
(* Properties of the names a user sees *)

\* C26: for every user, the categories visible to that user (the user's own
\* and the default ones) have pairwise distinct names
C26_VisibleNamesDistinct ==
  \A u \in Users :
    \A c \in categories, d \in categories :
      (VisibleTo(c, u) /\ VisibleTo(d, u) /\ c.id # d.id) => c.name # d.name

----------------------------------------------------------------------------
(* Properties of walking through the pages of the expense list *)

WalkQueries ==
  [page : {1}, limit : {1, 2, 3}, sortBy : {"date", "amount"},
   order : {"desc"}, categoryId : {NoId, 3}, startDate : {Absent},
   endDate : {Absent}, minAmount : {Absent}, maxAmount : {Absent}]

\* what findAll can answer for page p of query q
PageOf(u, q, p) ==
  ExpenseFindAll(categories, expenses, u, [q EXCEPT !.page = p])

\* the page numbers 1..totalPages of query q
PagesOf(u, q) ==
  LET r == CHOOSE x \in PageOf(u, q, 1) : TRUE IN 1..r.totalPages

\* the expenses on a page, with the number of times each is listed
Listed(r, e) ==
  Cardinality({i \in 1..Len(r.expenses) : r.expenses[i].expense = e})

\* C27: with the store unchanged and fixed filters, sort and limit, pages
\* 1..totalPages of findAll together hold every matching expense exactly
\* once, whatever the limit: each is on some page however the rows of equal
\* sort key fall, and none is listed twice, on one page or on two
C27_PagesCoverEveryRecordOnce ==
  \A u \in Users, q \in WalkQueries :
    \A e \in Filtered(u, q) :
      /\ \E p \in PagesOf(u, q) : \A r \in PageOf(u, q, p) : Listed(r, e) = 1
      /\ \A p \in PagesOf(u, q), o \in PagesOf(u, q) :
           \A r \in PageOf(u, q, p), s \in PageOf(u, q, o) :
             p # o => ~(Listed(r, e) > 0 /\ Listed(s, e) > 0)

----------------------------------------------------------------------------
(* Concurrent BudgetsService.update calls: the findUnique and the update   *)
(* are separate store calls, each awaited, with no transaction around them *)

RaceBudgetDtos ==
  [amount : Amounts, periodType : {"MONTHLY"}, startDate : {1}, endDate : {4}]

RaceBudgetUpdates ==
  [amount : {Absent}, periodType : {"absent"}, startDate : {Absent, 3},
   endDate : {Absent, 2}, isActive : {"absent"}]

UpdateCall(pc, u, id, dto, result) ==
  [pc |-> pc, user |-> u, id |-> id, dto |-> dto, result |-> result]

\* update up to the awaited findUnique and the checks of the row it returned
UpdateRead(p, u, id, dto) ==
  /\ calls[p].pc = "idle"
  /\ IF BudgetById(id) = {}
     THEN calls' = [calls EXCEPT ![p] = UpdateCall("done", u, id, dto, "NotFound")]
     ELSE LET b == CHOOSE x \in BudgetById(id) : TRUE
          IN IF b.userId # u
             THEN calls' = [calls EXCEPT ![p] =
                              UpdateCall("done", u, id, dto, "Forbidden")]
             ELSE IF InvalidRange(MergedStart(b, dto), MergedEnd(b, dto))
             THEN calls' = [calls EXCEPT ![p] =
                              UpdateCall("done", u, id, dto, "BadRequest")]
             ELSE calls' = [calls EXCEPT ![p] =
                              UpdateCall("write", u, id, dto, "none")]
  /\ UNCHANGED <<store, now, last>>

\* the awaited prisma.budget.update({where: {id}, data: updateData}): the
\* fields of the request replace those of the row as it is stored by then
UpdateWrite(p) ==
  /\ calls[p].pc = "write"
  /\ IF BudgetById(calls[p].id) = {}
     THEN /\ calls' = [calls EXCEPT ![p].pc = "done", ![p].result = "error"]
          /\ UNCHANGED budgets
     ELSE LET b == CHOOSE x \in BudgetById(calls[p].id) : TRUE
          IN /\ budgets' = (budgets \ {b}) \cup
                             {ApplyBudgetUpdate(b, calls[p].dto)}
             /\ calls' = [calls EXCEPT ![p].pc = "done", ![p].result = "ok"]
  /\ UNCHANGED <<categories, expenses, nextCategoryId, nextExpenseId,
                 nextBudgetId, now, last>>

RaceBudgetCreateStep ==
  /\ nextBudgetId = 1
  /\ \E u \in Users, dto \in RaceBudgetDtos : BudgetCreate(u, dto)

UpdateReadStep ==
  \E p \in Procs, u \in Users, id \in BudgetIds, dto \in RaceBudgetUpdates :
    UpdateRead(p, u, id, dto)

UpdateWriteStep == \E p \in Procs : UpdateWrite(p)

NextUpdateRace == RaceBudgetCreateStep \/ UpdateReadStep \/ UpdateWriteStep

SpecUpdateRace == Init /\ [][NextUpdateRace]_vars

----------------------------------------------------------------------------
(* Properties of concurrent updates *)

\* C28: however concurrent update calls of the owner on one budget
\* interleave, every stored budget has endDate strictly after startDate
C28_StoredRangeValidUnderRacingUpdates ==
  \A b \in budgets : b.endDate > b.startDate

----------------------------------------------------------------------------
(* Updates and removals that cannot pass validation: every budget update   *)
(* asks for a range that ends where it starts, every expense update names  *)
(* a category that does not exist, and categories are removed while        *)
(* expenses refer to them                                                  *)

InvalidBudgetUpdates ==
  {[amount |-> Absent, periodType |-> "absent", startDate |-> Absent,
    endDate |-> 2, isActive |-> "absent"],
   [amount |-> Absent, periodType |-> "absent", startDate |-> 3,
    endDate |-> Absent, isActive |-> "absent"]}

InvalidExpenseUpdates ==
  [categoryId : {3}, name : {None}, amount : {Absent}, date : {Absent}]

OrderBudgetUpdateStep ==
  \E u \in Users, id \in BudgetIds, dto \in InvalidBudgetUpdates :
    BudgetUpdate(u, id, dto)

OrderExpenseUpdateStep ==
  \E u \in Users, id \in ExpenseIds, dto \in InvalidExpenseUpdates :
    ExpenseUpdate(u, id, dto)

NextOrder ==
  \/ FullBudgetCreateStep \/ OrderBudgetUpdateStep \/ BudgetRemoveStep
  \/ FullCategoryCreateStep \/ FullCategoryUpdateStep \/ CategoryRemoveStep
  \/ FullExpenseCreateStep \/ OrderExpenseUpdateStep \/ ExpenseRemoveStep

SpecOrder == Init /\ [][NextOrder]_vars

----------------------------------------------------------------------------
(* Properties of the order of checks *)

\* the answer of the step for the row last'.id of a table, some of whose
\* rows are protected from the caller: NotFound for an absent id, Forbidden
\* for a protected row, and for any other row neither of these two
AnsweredInOrder(rows, protected) ==
  /\ (~\E r \in rows : r.id = last'.id) =>
       last'.result = "NotFound" /\ last'.msg = "NOT_FOUND"
  /\ \A r \in rows :
       r.id = last'.id =>
         IF r \in protected
         THEN last'.result = "Forbidden"
         ELSE /\ last'.result # "Forbidden"
              /\ last'.msg # "NOT_FOUND"

OfOthers(rows, u) == {r \in rows : r.userId # u}

DefaultOrOfOthers(rows, u) == {r \in rows : r.isDefault \/ r.userId # u}

\* C29: update and remove check existence, then ownership or default
\* protection, then validation and reference conflicts: an absent id gives
\* NotFound, and a row of another user (or a default category) gives
\* Forbidden whatever the request carries, also when the request would fail
\* validation (a date range ending at its start, a category that does not
\* exist) or the category still has expenses
C29_ChecksInFixedOrder ==
  [][/\ last'.op = "budgetUpdate" =>
          \A dto \in InvalidBudgetUpdates :
            BudgetUpdate(last'.user, last'.id, dto) =>
              AnsweredInOrder(budgets, OfOthers(budgets, last'.user))
     /\ last'.op = "budgetRemove" =>
          (BudgetRemove(last'.user, last'.id) =>
             AnsweredInOrder(budgets, OfOthers(budgets, last'.user)))
     /\ last'.op = "expenseUpdate" =>
          \A dto \in InvalidExpenseUpdates :
            ExpenseUpdate(last'.user, last'.id, dto) =>
              AnsweredInOrder(expenses, OfOthers(expenses, last'.user))
     /\ last'.op = "expenseRemove" =>
          (ExpenseRemove(last'.user, last'.id) =>
             AnsweredInOrder(expenses, OfOthers(expenses, last'.user)))
     /\ last'.op = "categoryUpdate" =>
          \A dto \in FullCategoryUpdates :
            CategoryUpdate(last'.user, last'.id, dto) =>
              AnsweredInOrder(categories,
                              DefaultOrOfOthers(categories, last'.user))
     /\ last'.op = "categoryRemove" =>
          (CategoryRemove(last'.user, last'.id) =>
             AnsweredInOrder(categories,
                             DefaultOrOfOthers(categories, last'.user)))]_vars

\* an update of another user's expense that names a category that does not
\* exist was answered Forbidden, while the store also holds a budget of
\* another user and another user's category that expenses refer to
C29_Witness ==
  /\ last.op = "expenseUpdate" /\ last.result = "Forbidden"
  /\ \E e \in expenses : e.id = last.id /\ e.userId # last.user
  /\ ~\E c \in categories : c.id = 3
  /\ \E b \in budgets : b.userId # last.user
  /\ \E c \in categories, e \in expenses :
       c.userId \in Users \ {last.user} /\ e.categoryId = c.id

----------------------------------------------------------------------------
(* A getDashboard call next to writers: the five queries the handler hands *)
(* to Promise.all are separate store calls with no transaction around      *)
(* them, answered in any order, and expenses are created and deleted       *)
(* between them                                                            *)

DashboardQueries == {"today", "week", "month", "recent", "budget"}

\* getDashboard up to Promise.all: the clock is read and the queries are issued
DashboardStart(p, u) ==
  /\ calls[p].pc \in {"idle", "done"}
  /\ calls' = [calls EXCEPT ![p] =
                 [pc |-> "reading", user |-> u, t |-> now,
                  pending |-> DashboardQueries,
                  todayExpenses |-> {}, weekExpenses |-> {},
                  monthExpenses |-> {}, recentExpenses |-> <<>>,
                  currentBudget |-> {}, result |-> "none"]]
  /\ UNCHANGED <<store, now, last>>

\* the store answers one of the issued queries from the rows it holds then
DashboardQuery(p, k) ==
  /\ calls[p].pc = "reading"
  /\ k \in calls[p].pending
  /\ LET c == calls[p]
         own == {e \in expenses : e.userId = c.user}
         today == YMD(DayOf(c.t))
     IN \E recent \in OrderedBy(own, [e \in own |-> e.date], "desc") :
          calls' = [calls EXCEPT ![p] =
            [c EXCEPT
               !.pending = @ \ {k},
               !.todayExpenses =
                  IF k = "today"
                  THEN {e \in own : e.date >= TicksPerDay * DayOf(c.t)} ELSE @,
               !.weekExpenses =
                  IF k = "week" THEN {e \in own : e.date >= WeekStart(c.t)}
                  ELSE @,
               !.monthExpenses =
                  IF k = "month"
                  THEN {e \in own : e.date >= FirstOfMonth(today.y, today.m)}
                  ELSE @,
               !.recentExpenses =
                  IF k = "recent" THEN [i \in DOMAIN Page(recent, 0, 5) |->
                                          recent[i].id]
                  ELSE @,
               !.currentBudget =
                  IF k = "budget"
                  THEN {b.id : b \in CurrentBudgets(budgets, c.user, c.t)}
                  ELSE @]]
  /\ UNCHANGED <<store, now, last>>

\* calculateTotal over the answers of the three period queries
DashboardTotals(c) ==
  [todayTotal |-> calculateTotal(c.todayExpenses),
   weekTotal |-> calculateTotal(c.weekExpenses),
   monthTotal |-> calculateTotal(c.monthExpenses)]

\* all five answers are in: the totals are added up and the call returns
\* them (the other figures of the dashboard are derived as in getDashboard)
DashboardReturn(p) ==
  /\ calls[p].pc = "reading"
  /\ calls[p].pending = {}
  /\ calls' = [calls EXCEPT ![p] =
                 [pc |-> "done", user |-> calls[p].user, t |-> calls[p].t,
                  totals |-> DashboardTotals(calls[p]), result |-> "ok"]]
  /\ last' = Result("dashboard", calls[p].user, NoId, "ok", "")
  /\ UNCHANGED <<store, now>>

DashboardStartStep == \E u \in Users : DashboardStart("p1", u)

DashboardQueryStep == \E k \in DashboardQueries : DashboardQuery("p1", k)

DashboardReturnStep == DashboardReturn("p1")

NextDashboardRace ==
  \/ DashboardStartStep \/ DashboardQueryStep \/ DashboardReturnStep
  \/ DatedExpenseCreateStep \/ DatedExpenseRemoveStep

SpecDashboardRace == Init /\ [][NextDashboardRace]_vars

----------------------------------------------------------------------------
(* Properties of a dashboard read next to writers *)

\* C30: every dashboard returned has todayTotal <= weekTotal and
\* todayTotal <= monthTotal, also when expenses of the user are created or
\* deleted while the queries of the call are in flight
C30_TodayWithinWeekAndMonth ==
  \A p \in Procs :
    calls[p].pc = "done" =>
      /\ calls[p].totals.todayTotal <= calls[p].totals.weekTotal
      /\ calls[p].totals.todayTotal <= calls[p].totals.monthTotal

====
